---- MODULE Spec2Model ----
(***************************************************************************)
(* The intersection controller of src/trial_controller.py with its two     *)
(* Berkeley peers (src/trial_t_signal.py, src/trial_p_signal.py).          *)
(*                                                                         *)
(* One controller instance is modelled.  Its request handlers              *)
(* (signal_controller, vip_arrival) are tasks that share signal_status,    *)
(* vip_queues and server_skew.  Every `with state_lock:` block is one      *)
(* atomic step; between two such blocks, at a remote call or at a sleep, a *)
(* handler can be overtaken by another one.  The runs in which a call is   *)
(* accepted only when every handler is idle are the runs of a listener     *)
(* that dispatches one request at a time; the other runs are those of      *)
(* overlapping handlers, which is what state_lock is written for.          *)
(*                                                                         *)
(* The four specifications have the same actions and differ in where a     *)
(* handler can be overtaken: Spec around the queue operations, SpecSignals *)
(* inside the signal transition, SpecClock inside the Berkeley cycle, and  *)
(* SpecQueue only between two iterations of the drain loop.                *)
(*                                                                         *)
(* Time is integer fixed point.  time.time() is the variable now; it       *)
(* advances when a VIP request is timestamped, so that two timestamps      *)
(* taken under the same skew are strictly ordered.  Float division is      *)
(* integer division.                                                       *)
(***************************************************************************)
EXTENDS Integers, Sequences, FiniteSets, TLC

\* ------------------------------------------------------------------ bounds
MaxCalls == 2
MaxQueueCalls == 3
MaxPriority == 2
MaxFailures == 2
MaxRouterCalls == 5
MaxFaultCalls == 2
MaxDepth == 2
\* the router's capacity bound and clone maximum, scaled down (the source has 5 and 3)
BUFFER_SIZE == 2
MAX_DYNAMIC_CLONES == 1

\* ------------------------------------------------------- program constants
BlinkSeconds == 5
TSignalInitialSkew == 45 * 60
PSignalInitialSkew == 0 - 45 * 60

Handlers == 1 .. MaxQueueCalls
\* router: "controller", "controller_clone"; dynamic clones get the next numbers
BASE_CONTROLLERS == <<1, 2>>
Instances == 1 .. (Len(BASE_CONTROLLERS) + MAX_DYNAMIC_CLONES)
Forwarders == 1 .. MaxRouterCalls
CLIENTS == <<"t_signal", "p_signal">>
PeerNames == {"t_signal", "p_signal"}
Pairs == {"12", "34"}
VehicleSignals == {"1", "2", "3", "4"}
PedestrianSignals == {"P1", "P2", "P3", "P4"}
Signals == VehicleSignals \cup PedestrianSignals

VARIABLES
  signal_status,   \* signal id -> colour
  vip_queues,      \* "12" / "34" -> sequence of VIPRequest
  server_skew,     \* controller's accumulated skew
  local_skew,      \* peer name -> that peer's skew
  now,             \* time.time()
  calls,           \* number of calls accepted so far
  pc,              \* handler -> position in its code
  req,             \* handler -> the call it is handling
  bk,              \* handler -> locals of berkeley_cycle_once
  dr,              \* handler -> locals of _process_vip_requests/_serve_next_vip
  sw,              \* handler -> locals of _switch_to
  result,          \* handler -> what its last call returned
  served,          \* history: the VIP requests popped for service, in order, each
                   \* with the vehicle ids then waiting in the other queue
  failures,        \* number of Berkeley calls that have failed so far
  controllers,     \* router: the registered instances, in the order of registration
  is_available,    \* router: instance -> availability flag
  active_requests, \* router: instance -> in-flight request ids (deque)
  total_processed, \* router: instance -> lifetime count of completed requests
  routed,          \* router: number of calls accepted so far
  fw,              \* router: forwarder -> locals of forward_request
  hc,              \* router: locals of health_check_loop
  db_lock,         \* router: DatabaseManager.lock is held
  status_pc,       \* router: position of the task that serves the status calls
  access,          \* history: the accesses to signal_status and vip_queues made in the
                   \* last step, each with whether state_lock was held
  blocking,        \* history: the delays, remote calls and acquisitions of state_lock
                   \* of the last step of a handler, each with whether state_lock
                   \* was held
  executed_on      \* history: forwarder -> the instances that have taken the request
                   \* of its call and run it

ctl_vars == <<signal_status, vip_queues, server_skew, local_skew, now, calls,
              pc, req, bk, dr, sw, result, served, failures>>
rt_vars == <<controllers, is_available, active_requests, total_processed, routed, fw, hc,
             db_lock, status_pc>>
lock_vars == <<access, blocking>>
timeout_vars == <<executed_on>>
vars == <<ctl_vars, rt_vars, lock_vars, timeout_vars>>

\* ----------------------------------------------------------------- helpers
OtherPair(p) == IF p = "12" THEN "34" ELSE "12"
VehicleGroup(p) == IF p = "12" THEN {"1", "2"} ELSE {"3", "4"}
PedestrianGroup(p) == IF p = "12" THEN {"P1", "P2"} ELSE {"P3", "P4"}

\* VIPRequest.__lt__
VIPLess(a, b) ==
  IF a.priority # b.priority
    THEN a.priority < b.priority
    ELSE a.arrival_time < b.arrival_time

\* a variant that leaves the list in the order of the appends
SortQueueNone(s) == s

\* list.sort() with __lt__: stable, ascending
RECURSIVE InsertSorted(_, _)
InsertSorted(s, x) ==
  IF s = <<>> THEN <<x>>
  ELSE IF VIPLess(x, s[Len(s)]) THEN Append(InsertSorted(SubSeq(s, 1, Len(s) - 1), x), s[Len(s)])
  ELSE Append(s, x)

RECURSIVE SortQueue(_)
SortQueue(s) ==
  IF s = <<>> THEN <<>>
  ELSE InsertSorted(SortQueue(SubSeq(s, 1, Len(s) - 1)), s[Len(s)])

\* sum(clock_values.values())
RECURSIVE SumValues(_)
SumValues(f) ==
  IF DOMAIN f = {} THEN 0
  ELSE LET k == CHOOSE k \in DOMAIN f : TRUE
       IN f[k] + SumValues([j \in DOMAIN f \ {k} |-> f[j]])

\* the vehicle ids of the requests in a queue
QueuedIds(q) == {q[i].vehicle_id : i \in 1 .. Len(q)}

\* _current_green_pair
current_green_pair ==
  IF signal_status["1"] = "GREEN" /\ signal_status["2"] = "GREEN" THEN "12" ELSE "34"

\* get_server_time
get_server_time == now + server_skew

\* denied is history: the pedestrian node has answered DENY for this call's request
\* answered, sent and faults of a Berkeley cycle are history: the peers that
\* answered get_clock_value, the peers set_time was attempted on, and the number
\* of calls of the cycle that raised
NoReq == [kind |-> "none", pair |-> "12", priority |-> 0, id |-> 0, arrival_time |-> 0,
          denied |-> FALSE]
NoBk == [server_time |-> 0, clock_values |-> ("controller" :> 0),
         successful_clients |-> <<>>, avg_offset |-> 0, new_epoch |-> 0, i |-> 0,
         answered |-> <<>>, sent |-> {}, faults |-> 0]
NoVip == [vehicle_id |-> 0, priority |-> 0, arrival_time |-> 0, target_pair |-> "12"]
\* vote is history: the answer of the pedestrian node the handler has just received
NoDr == [has_12 |-> FALSE, has_34 |-> FALSE, pair |-> "12", vip |-> NoVip, vote |-> "none"]
\* router: controller 0 is no controller; tier, provision and failed_on are history:
\* the branch of the last selection, what its provisioning attempt did, and the
\* instance the last attempt failed on (until a health probe of it succeeds)
NoFw == [pc |-> "idle", controller |-> 0, request_id |-> <<0, 0>>, depth |-> 0,
         tier |-> 0, provision |-> "none", failed_on |-> 0]
NoHc == [pc |-> "sleep", i |-> 0, size |-> 0]
NoSw == [target |-> "12", i |-> 0, ret |-> "none", vote |-> "none"]

Init ==
  /\ signal_status = [s \in Signals |->
        IF s \in {"3", "4", "P1", "P2"} THEN "GREEN" ELSE "RED"]
  /\ vip_queues = [k \in Pairs |-> <<>>]
  /\ server_skew = 0
  /\ local_skew = [n \in PeerNames |->
        IF n = "t_signal" THEN TSignalInitialSkew ELSE PSignalInitialSkew]
  /\ now = 0
  /\ calls = 0
  /\ pc = [h \in Handlers |-> "idle"]
  /\ req = [h \in Handlers |-> NoReq]
  /\ bk = [h \in Handlers |-> NoBk]
  /\ dr = [h \in Handlers |-> NoDr]
  /\ sw = [h \in Handlers |-> NoSw]
  /\ result = [h \in Handlers |-> "none"]
  /\ served = <<>>
  /\ failures = 0
  /\ controllers = BASE_CONTROLLERS
  /\ is_available = [c \in Instances |-> TRUE]
  /\ active_requests = [c \in Instances |-> <<>>]
  /\ total_processed = [c \in Instances |-> 0]
  /\ routed = 0
  /\ fw = [f \in Forwarders |-> NoFw]
  /\ hc = NoHc
  /\ db_lock = FALSE
  /\ status_pc = "idle"
  /\ access = {}
  /\ blocking = {}
  /\ executed_on = [f \in Forwarders |-> {}]

\* ---------------------------------------------------------------- listener
\* The listener hands a call to the first idle handler.
FreeHandler(h) ==
  /\ pc[h] = "idle"
  /\ \A g \in Handlers : g < h => pc[g] # "idle"

\* an entry that leaves out berkeley_cycle_once
EnterWithoutSync(h, r) ==
  /\ FreeHandler(h)
  /\ calls' = calls + 1
  /\ req' = [req EXCEPT ![h] = [r EXCEPT !.id = calls + 1]]
  /\ pc' = [pc EXCEPT ![h] = IF r.kind = "vip" THEN "vip_stamp" ELSE "sc_check"]
  /\ result' = [result EXCEPT ![h] = "none"]
  /\ UNCHANGED <<signal_status, vip_queues, server_skew, local_skew, now, bk, dr, sw,
                 served, failures>>

\* the entry of a handler, up to server_time = get_server_time() in berkeley_cycle_once
Enter(h, r) ==
  /\ FreeHandler(h)
  /\ calls' = calls + 1
  /\ req' = [req EXCEPT ![h] = [r EXCEPT !.id = calls + 1]]
  /\ bk' = [bk EXCEPT ![h] = [NoBk EXCEPT !.server_time = get_server_time, !.i = 1]]
  /\ pc' = [pc EXCEPT ![h] = "bk_get"]
  /\ result' = [result EXCEPT ![h] = "none"]
  /\ UNCHANGED <<signal_status, vip_queues, server_skew, local_skew, now, dr, sw,
                 served, failures>>

\* RPC signal_controller(target_pair)
call_signal_controller(h, pair) ==
  Enter(h, [NoReq EXCEPT !.kind = "normal", !.pair = pair])

\* RPC vip_arrival(target_pair, priority, vehicle_id)
call_vip_arrival(h, pair, priority) ==
  Enter(h, [NoReq EXCEPT !.kind = "vip", !.pair = pair, !.priority = priority])

\* ---------------------------------------------------- berkeley_cycle_once
\* where a handler goes when berkeley_cycle_once returns
AfterBerkeley(h) == IF req[h].kind = "vip" THEN "vip_stamp" ELSE "sc_check"

\* a variant that averages over every configured peer, answered or not
AvgOffsetAllPeers(clock_values) == SumValues(clock_values) \div (Len(CLIENTS) + 1)

\* avg_offset = sum(clock_values.values()) / len(clock_values)
AvgOffset(clock_values) == SumValues(clock_values) \div Cardinality(DOMAIN clock_values)

\* a variant without the standalone check
NoClientRespondedNever(clock_values) == FALSE

\* if len(clock_values) <= 1: return
NoClientResponded(clock_values) == Cardinality(DOMAIN clock_values) <= 1

\* the locals after one iteration of the first loop; after the last one the
\* standalone check, avg_offset and new_epoch
AfterGet(b) ==
  IF b.i <= Len(CLIENTS) THEN b
  ELSE IF NoClientResponded(b.clock_values) THEN NoBk
  ELSE [b EXCEPT !.avg_offset = AvgOffset(b.clock_values),
                 !.new_epoch = b.server_time + AvgOffset(b.clock_values),
                 !.i = 1]

\* a variant in which a cycle that no peer answered ends the request
PcAfterGetAborts(h, b) ==
  IF b.i <= Len(CLIENTS) THEN "bk_get"
  ELSE IF NoClientResponded(b.clock_values) THEN "idle"
  ELSE "bk_set"

PcAfterGet(h, b) ==
  IF b.i <= Len(CLIENTS) THEN "bk_get"
  ELSE IF NoClientResponded(b.clock_values) THEN AfterBerkeley(h)
  ELSE "bk_set"

\* peer side of get_clock_value(server_time)
peer_get_clock_value(name, server_time) == (now + local_skew[name]) - server_time

\* try: cv = float(proxy.get_clock_value(server_time)); clock_values[name] = cv;
\* successful_clients.append(name)
GetAnswered(b, name, cv) ==
  [b EXCEPT !.clock_values = (name :> cv) @@ @,
            !.successful_clients = Append(@, name),
            !.answered = Append(@, <<name, cv>>),
            !.i = @ + 1]

\* except Exception: only a log line
GetFailed(b, name) == [b EXCEPT !.i = @ + 1, !.faults = @ + 1]

\* one iteration of the first loop: proxy.get_clock_value(server_time) answered
berkeley_get_ok(h) ==
  /\ pc[h] = "bk_get"
  /\ LET name == CLIENTS[bk[h].i]
         b == GetAnswered(bk[h], name, peer_get_clock_value(name, bk[h].server_time))
     IN /\ bk' = [bk EXCEPT ![h] = AfterGet(b)]
        /\ pc' = [pc EXCEPT ![h] = PcAfterGet(h, b)]
  /\ UNCHANGED <<signal_status, vip_queues, server_skew, local_skew, now, calls,
                 req, dr, sw, result, served, failures>>

\* one iteration of the first loop: the call raised (timeout, transport error)
berkeley_get_fail(h) ==
  /\ pc[h] = "bk_get"
  /\ failures < MaxFailures
  /\ failures' = failures + 1
  /\ LET b == GetFailed(bk[h], CLIENTS[bk[h].i])
     IN /\ bk' = [bk EXCEPT ![h] = AfterGet(b)]
        /\ pc' = [pc EXCEPT ![h] = PcAfterGet(h, b)]
  /\ UNCHANGED <<signal_status, vip_queues, server_skew, local_skew, now, calls,
                 req, dr, sw, result, served>>

\* a variant that takes the new time for the skew
peer_set_time_absolute(name, new_time) == [local_skew EXCEPT ![name] = new_time]

\* peer side of set_time(new_time): local_skew = new_time - time.time()
peer_set_time(name, new_time) == [local_skew EXCEPT ![name] = new_time - now]

\* a variant that pushes the new time to every configured peer (as the second
\* loop of src/controller.py does)
SetTimeTargetsAll(b) == CLIENTS

\* for name in successful_clients: the peers of the second loop
SetTimeTargets(b) == b.successful_clients

\* one iteration of the second loop: proxy.set_time(new_epoch) reached the peer
berkeley_set_ok(h) ==
  /\ pc[h] = "bk_set"
  /\ LET name == SetTimeTargets(bk[h])[bk[h].i]
     IN /\ local_skew' = peer_set_time(name, bk[h].new_epoch)
        /\ bk' = [bk EXCEPT ![h].i = @ + 1, ![h].sent = @ \cup {name}]
  /\ pc' = [pc EXCEPT ![h] =
              IF bk[h].i = Len(SetTimeTargets(bk[h])) THEN "bk_adj" ELSE "bk_set"]
  /\ UNCHANGED <<signal_status, vip_queues, server_skew, now, calls, req, dr, sw,
                 result, served, failures>>

\* one iteration of the second loop: the call raised before reaching the peer
berkeley_set_fail(h) ==
  /\ pc[h] = "bk_set"
  /\ failures < MaxFailures
  /\ failures' = failures + 1
  /\ bk' = [bk EXCEPT ![h].i = @ + 1,
                      ![h].sent = @ \cup {SetTimeTargets(bk[h])[bk[h].i]},
                      ![h].faults = @ + 1]
  /\ pc' = [pc EXCEPT ![h] =
              IF bk[h].i = Len(SetTimeTargets(bk[h])) THEN "bk_adj" ELSE "bk_set"]
  /\ UNCHANGED <<signal_status, vip_queues, server_skew, local_skew, now, calls,
                 req, dr, sw, result, served>>

\* server_skew += (new_epoch - server_time); berkeley_cycle_once returns
berkeley_adjust(h) ==
  /\ pc[h] = "bk_adj"
  /\ server_skew' = server_skew + (bk[h].new_epoch - bk[h].server_time)
  /\ pc' = [pc EXCEPT ![h] = AfterBerkeley(h)]
  /\ bk' = [bk EXCEPT ![h] = NoBk]
  /\ UNCHANGED <<signal_status, vip_queues, local_skew, now, calls, req, dr, sw,
                 result, served, failures>>

\* ------------------------------------------------------------- vip_arrival
\* vip_req = VIPRequest(..., arrival_time=get_server_time(), ...)
vip_stamp(h) ==
  /\ pc[h] = "vip_stamp"
  /\ now' = now + 1
  /\ req' = [req EXCEPT ![h].arrival_time = now' + server_skew]
  /\ pc' = [pc EXCEPT ![h] = "vip_enqueue"]
  /\ UNCHANGED <<signal_status, vip_queues, server_skew, local_skew, calls, bk, dr, sw, result, served, failures>>

VIPRequest(r) == [vehicle_id |-> r.id, priority |-> r.priority,
                  arrival_time |-> r.arrival_time, target_pair |-> r.pair]

\* with state_lock: vip_queues[key].append(vip_req); vip_queues[key].sort()
vip_enqueue(h) ==
  /\ pc[h] = "vip_enqueue"
  /\ vip_queues' = [vip_queues EXCEPT ![req[h].pair] = SortQueue(Append(@, VIPRequest(req[h])))]
  /\ pc' = [pc EXCEPT ![h] = "drain_check"]
  /\ UNCHANGED <<signal_status, server_skew, local_skew, now, calls, req, bk, dr, sw, result, served, failures>>

\* ---------------------------------------------------- _process_vip_requests
\* where a handler goes when _process_vip_requests returns
AfterDrain(h) == IF req[h].kind = "vip" THEN "ret_true" ELSE "sc_ack"

\* a variant whose loop ends unless both queues hold a request
process_vip_requests_check_both(h) ==
  /\ pc[h] = "drain_check"
  /\ LET has_12 == Len(vip_queues["12"]) > 0
         has_34 == Len(vip_queues["34"]) > 0
     IN /\ dr' = [dr EXCEPT ![h] =
                    IF ~(has_12 /\ has_34) THEN NoDr
                    ELSE [NoDr EXCEPT !.has_12 = has_12, !.has_34 = has_34, !.pair = "12"]]
        /\ pc' = [pc EXCEPT ![h] =
                    IF ~(has_12 /\ has_34) THEN AfterDrain(h) ELSE "drain_heads"]
  /\ UNCHANGED <<signal_status, vip_queues, server_skew, local_skew, now, calls,
                 req, bk, sw, result, served, failures>>

\* with state_lock: has_12, has_34; then the branch of the loop body
process_vip_requests_check(h) ==
  /\ pc[h] = "drain_check"
  /\ LET has_12 == Len(vip_queues["12"]) > 0
         has_34 == Len(vip_queues["34"]) > 0
     IN /\ dr' = [dr EXCEPT ![h] =
                    IF ~(has_12 \/ has_34) THEN NoDr
                    ELSE [NoDr EXCEPT !.has_12 = has_12, !.has_34 = has_34,
                                      !.pair = IF has_12 THEN "12" ELSE "34"]]
        /\ pc' = [pc EXCEPT ![h] =
                    IF ~(has_12 \/ has_34) THEN AfterDrain(h)
                    ELSE IF has_12 /\ has_34 THEN "drain_heads"
                    ELSE "serve_pop"]
  /\ UNCHANGED <<signal_status, vip_queues, server_skew, local_skew, now, calls,
                 req, bk, sw, result, served, failures>>

\* a variant with the comparison inverted
DeadlockWinnerInverted(vip_12, vip_34) == IF VIPLess(vip_12, vip_34) THEN "34" ELSE "12"

\* the deadlock branch's choice: _serve_next_vip([1, 2]) if vip_12 < vip_34 else [3, 4]
DeadlockWinner(vip_12, vip_34) == IF VIPLess(vip_12, vip_34) THEN "12" ELSE "34"

\* with state_lock: vip_12 = vip_queues["12"][0]; vip_34 = vip_queues["34"][0]
process_vip_requests_heads(h) ==
  /\ pc[h] = "drain_heads"
  /\ Len(vip_queues["12"]) > 0
  /\ Len(vip_queues["34"]) > 0
  /\ dr' = [dr EXCEPT ![h].pair = DeadlockWinner(vip_queues["12"][1], vip_queues["34"][1])]
  /\ pc' = [pc EXCEPT ![h] = "serve_pop"]
  /\ UNCHANGED <<signal_status, vip_queues, server_skew, local_skew, now, calls,
                 req, bk, sw, result, served, failures>>

\* the same block when a queue has been emptied meanwhile: [0] raises IndexError,
\* the handler ends with a fault
process_vip_requests_index_error(h) ==
  /\ pc[h] = "drain_heads"
  /\ Len(vip_queues["12"]) = 0 \/ Len(vip_queues["34"]) = 0
  /\ pc' = [pc EXCEPT ![h] = "idle"]
  /\ result' = [result EXCEPT ![h] = "fault"]
  /\ UNCHANGED <<signal_status, vip_queues, server_skew, local_skew, now, calls,
                 req, bk, dr, sw, served, failures>>

\* ----------------------------------------------------------- _serve_next_vip
\* a variant that reads the head and leaves it in the queue
serve_next_vip_peek(h) ==
  /\ pc[h] = "serve_pop"
  /\ LET key == dr[h].pair
     IN IF Len(vip_queues[key]) = 0
          THEN /\ pc' = [pc EXCEPT ![h] = "drain_check"]
               /\ UNCHANGED <<dr, served>>
          ELSE /\ dr' = [dr EXCEPT ![h].vip = Head(vip_queues[key])]
               /\ served' = Append(served, [vip |-> Head(vip_queues[key]),
                                             passed |-> QueuedIds(vip_queues[OtherPair(key)])])
               /\ pc' = [pc EXCEPT ![h] = "serve_ack"]
  /\ UNCHANGED <<signal_status, vip_queues, server_skew, local_skew, now, calls, req, bk, sw,
                 result, failures>>

\* a variant that empties the queue it takes the head from
serve_next_vip_clear(h) ==
  /\ pc[h] = "serve_pop"
  /\ LET key == dr[h].pair
     IN IF Len(vip_queues[key]) = 0
          THEN /\ pc' = [pc EXCEPT ![h] = "drain_check"]
               /\ UNCHANGED <<vip_queues, dr, served, failures>>
          ELSE /\ dr' = [dr EXCEPT ![h].vip = Head(vip_queues[key])]
               /\ served' = Append(served, [vip |-> Head(vip_queues[key]),
                                             passed |-> QueuedIds(vip_queues[OtherPair(key)])])
               /\ vip_queues' = [vip_queues EXCEPT ![key] = <<>>]
               /\ pc' = [pc EXCEPT ![h] = "serve_ack"]
  /\ UNCHANGED <<signal_status, server_skew, local_skew, now, calls, req, bk, sw, result, failures>>

\* with state_lock: if not vip_queues[key]: return; vip = vip_queues[key].pop(0)
serve_next_vip_pop(h) ==
  /\ pc[h] = "serve_pop"
  /\ LET key == dr[h].pair
     IN IF Len(vip_queues[key]) = 0
          THEN /\ pc' = [pc EXCEPT ![h] = "drain_check"]
               /\ UNCHANGED <<vip_queues, dr, served, failures>>
          ELSE /\ dr' = [dr EXCEPT ![h].vip = Head(vip_queues[key])]
               /\ served' = Append(served, [vip |-> Head(vip_queues[key]),
                                             passed |-> QueuedIds(vip_queues[OtherPair(key)])])
               /\ vip_queues' = [vip_queues EXCEPT ![key] = Tail(@)]
               /\ pc' = [pc EXCEPT ![h] = "serve_ack"]
  /\ UNCHANGED <<signal_status, server_skew, local_skew, now, calls, req, bk, sw, result, failures>>

\* _get_pedestrian_ack: what proxy.p_signal(target_pair) can do
PedestrianReplies == {"OK", "DENY", "UNREACHABLE"}

\* a variant that takes an unreachable pedestrian node for a denial
get_pedestrian_ack_strict(reply) == reply = "OK"

\* _get_pedestrian_ack: False only on an answer other than "OK"
get_pedestrian_ack(reply) == reply # "DENY"

\* if not _get_pedestrian_ack(pair, "VIP", ...): return
serve_next_vip_ack(h, reply) ==
  /\ pc[h] = "serve_ack"
  /\ pc' = [pc EXCEPT ![h] = IF get_pedestrian_ack(reply) THEN "serve_cur" ELSE "drain_check"]
  /\ dr' = [dr EXCEPT ![h].vote = reply]
  /\ req' = [g \in Handlers |->
               IF req[g].kind = "vip" /\ req[g].id = dr[h].vip.vehicle_id
                    /\ ~get_pedestrian_ack(reply)
                 THEN [req[g] EXCEPT !.denied = TRUE]
                 ELSE req[g]]
  /\ UNCHANGED <<signal_status, vip_queues, server_skew, local_skew, now, calls,
                 bk, sw, result, served, failures>>

\* a variant that runs the transition whatever the current green pair is
serve_next_vip_current_always(h) ==
  /\ pc[h] = "serve_cur"
  /\ sw' = [sw EXCEPT ![h] = [NoSw EXCEPT !.target = dr[h].pair, !.ret = "cross"]]
  /\ pc' = [pc EXCEPT ![h] = "ped_blink"]
  /\ dr' = [dr EXCEPT ![h].vote = "none"]
  /\ UNCHANGED <<signal_status, vip_queues, server_skew, local_skew, now, calls,
                 req, bk, result, served, failures>>

\* current_pair = _current_green_pair(); if current_pair != pair: _switch_to(pair)
serve_next_vip_current(h) ==
  /\ pc[h] = "serve_cur"
  /\ IF current_green_pair # dr[h].pair
       THEN /\ sw' = [sw EXCEPT ![h] = [NoSw EXCEPT !.target = dr[h].pair, !.ret = "cross"]]
            /\ pc' = [pc EXCEPT ![h] = "ped_blink"]
       ELSE /\ sw' = sw
            /\ pc' = [pc EXCEPT ![h] = "cross"]
  /\ dr' = [dr EXCEPT ![h].vote = "none"]
  /\ UNCHANGED <<signal_status, vip_queues, server_skew, local_skew, now, calls,
                 req, bk, result, served, failures>>

\* _let_vip_cross(vip), then the RELEASED line: back to the loop of _process_vip_requests
let_vip_cross(h) ==
  /\ pc[h] = "cross"
  /\ pc' = [pc EXCEPT ![h] = "drain_check"]
  /\ UNCHANGED <<signal_status, vip_queues, server_skew, local_skew, now, calls,
                 req, bk, dr, sw, result, served, failures>>

\* --------------------------------------------------------------- _switch_to
SetSignals(status, group, colour) ==
  [s \in Signals |-> IF s \in group THEN colour ELSE status[s]]

\* handle_pedestrian_signals: one iteration of the blink loop (then time.sleep(1))
handle_pedestrian_blink(h) ==
  /\ pc[h] = "ped_blink"
  /\ signal_status' = SetSignals(signal_status, PedestrianGroup(sw[h].target), "BLINKING RED")
  /\ sw' = [sw EXCEPT ![h].i = @ + 1, ![h].vote = "none"]
  /\ pc' = [pc EXCEPT ![h] = IF sw[h].i + 1 = BlinkSeconds THEN "ped_red" ELSE "ped_blink"]
  /\ UNCHANGED <<vip_queues, server_skew, local_skew, now, calls, req, bk, dr, result, served, failures>>

\* handle_pedestrian_signals: P(red_group) = "RED"
handle_pedestrian_red(h) ==
  /\ pc[h] = "ped_red"
  /\ signal_status' = SetSignals(signal_status, PedestrianGroup(sw[h].target), "RED")
  /\ pc' = [pc EXCEPT ![h] = "ped_yellow"]
  /\ UNCHANGED <<vip_queues, server_skew, local_skew, now, calls, req, bk, dr, sw, result, served, failures>>

\* handle_pedestrian_signals: P(green_group) = "YELLOW" (then time.sleep(5))
handle_pedestrian_yellow(h) ==
  /\ pc[h] = "ped_yellow"
  /\ signal_status' = SetSignals(signal_status, PedestrianGroup(OtherPair(sw[h].target)), "YELLOW")
  /\ pc' = [pc EXCEPT ![h] = "ped_green"]
  /\ UNCHANGED <<vip_queues, server_skew, local_skew, now, calls, req, bk, dr, sw, result, served, failures>>

\* handle_pedestrian_signals: P(green_group) = "GREEN"
handle_pedestrian_green(h) ==
  /\ pc[h] = "ped_green"
  /\ signal_status' = SetSignals(signal_status, PedestrianGroup(OtherPair(sw[h].target)), "GREEN")
  /\ pc' = [pc EXCEPT ![h] = "veh_yellow"]
  /\ UNCHANGED <<vip_queues, server_skew, local_skew, now, calls, req, bk, dr, sw, result, served, failures>>

\* a variant that turns the target pair yellow instead of the pair to be stopped
handle_traffic_yellow_target(h) ==
  /\ pc[h] = "veh_yellow"
  /\ signal_status' = SetSignals(signal_status, VehicleGroup(sw[h].target), "YELLOW")
  /\ pc' = [pc EXCEPT ![h] = "veh_red"]
  /\ UNCHANGED <<vip_queues, server_skew, local_skew, now, calls, req, bk, dr, sw, result, served, failures>>

\* handle_traffic_signals: red_group = "YELLOW" (then time.sleep(2))
handle_traffic_yellow(h) ==
  /\ pc[h] = "veh_yellow"
  /\ signal_status' = SetSignals(signal_status, VehicleGroup(OtherPair(sw[h].target)), "YELLOW")
  /\ pc' = [pc EXCEPT ![h] = "veh_red"]
  /\ UNCHANGED <<vip_queues, server_skew, local_skew, now, calls, req, bk, dr, sw, result, served, failures>>

\* a variant that leaves the pair to be stopped at YELLOW
handle_traffic_red_skip(h) ==
  /\ pc[h] = "veh_red"
  /\ pc' = [pc EXCEPT ![h] = "veh_green"]
  /\ UNCHANGED <<signal_status, vip_queues, server_skew, local_skew, now, calls, req, bk,
                 dr, sw, result, served, failures>>

\* handle_traffic_signals: red_group = "RED"
handle_traffic_red(h) ==
  /\ pc[h] = "veh_red"
  /\ signal_status' = SetSignals(signal_status, VehicleGroup(OtherPair(sw[h].target)), "RED")
  /\ pc' = [pc EXCEPT ![h] = "veh_green"]
  /\ UNCHANGED <<vip_queues, server_skew, local_skew, now, calls, req, bk, dr, sw, result, served, failures>>

\* handle_traffic_signals: target_pair = "GREEN"; _switch_to returns to its caller
handle_traffic_green(h) ==
  /\ pc[h] = "veh_green"
  /\ signal_status' = SetSignals(signal_status, VehicleGroup(sw[h].target), "GREEN")
  /\ pc' = [pc EXCEPT ![h] = sw[h].ret]
  /\ sw' = [sw EXCEPT ![h] = NoSw]
  /\ UNCHANGED <<vip_queues, server_skew, local_skew, now, calls, req, bk, dr, result, served, failures>>

\* ------------------------------------------------------- signal_controller
\* with state_lock: vip_count = ...; if vip_count > 0: _process_vip_requests()
signal_controller_check(h) ==
  /\ pc[h] = "sc_check"
  /\ pc' = [pc EXCEPT ![h] =
              IF Len(vip_queues["12"]) + Len(vip_queues["34"]) > 0
                THEN "drain_check" ELSE "sc_ack"]
  /\ UNCHANGED <<signal_status, vip_queues, server_skew, local_skew, now, calls,
                 req, bk, dr, sw, result, served, failures>>

\* if not _get_pedestrian_ack(target_pair, "normal", ...): return False; else _switch_to
signal_controller_ack(h, reply) ==
  /\ pc[h] = "sc_ack"
  /\ IF get_pedestrian_ack(reply)
       THEN /\ sw' = [sw EXCEPT ![h] = [NoSw EXCEPT !.target = req[h].pair, !.ret = "sc_done",
                                              !.vote = reply]]
            /\ pc' = [pc EXCEPT ![h] = "ped_blink"]
            /\ UNCHANGED <<result, req>>
       ELSE /\ sw' = sw
            /\ pc' = [pc EXCEPT ![h] = "idle"]
            /\ result' = [result EXCEPT ![h] = "False"]
            /\ req' = [req EXCEPT ![h] = NoReq]
  /\ UNCHANGED <<signal_status, vip_queues, server_skew, local_skew, now, calls,
                 bk, dr, served, failures>>

\* the RELEASED line, log_mutex_state(), return True
signal_controller_return(h) ==
  /\ pc[h] = "sc_done"
  /\ pc' = [pc EXCEPT ![h] = "idle"]
  /\ result' = [result EXCEPT ![h] = "True"]
  /\ req' = [req EXCEPT ![h] = NoReq]
  /\ UNCHANGED <<signal_status, vip_queues, server_skew, local_skew, now, calls,
                 bk, dr, sw, served, failures>>

\* vip_arrival: return True
vip_arrival_return(h) ==
  /\ pc[h] = "ret_true"
  /\ pc' = [pc EXCEPT ![h] = "idle"]
  /\ result' = [result EXCEPT ![h] = "True"]
  /\ req' = [req EXCEPT ![h] = NoReq]
  /\ UNCHANGED <<signal_status, vip_queues, server_skew, local_skew, now, calls,
                 bk, dr, sw, served, failures>>

\* ------------------------------------------------------------ specification
BerkeleyPcs == {"bk_get", "bk_set", "bk_adj"}
SwitchPcs == {"ped_blink", "ped_red", "ped_yellow", "ped_green",
              "veh_yellow", "veh_red", "veh_green"}

\* Handler h takes a step only when every other handler stands at a position where
\* the specification lets it be overtaken.
Turn(h, yield) == \A g \in Handlers \ {h} : pc[g] \in yield

YieldArbiter == {"idle", "vip_enqueue", "drain_check", "drain_heads", "serve_pop",
                 "sc_check", "sc_ack"}
YieldSignals == {"idle", "cross", "serve_cur"} \cup SwitchPcs
YieldClock == {"idle"} \cup BerkeleyPcs
YieldQueue == {"idle", "drain_check"}
YieldSerial == {"idle"}

Next ==
  \E h \in Handlers :
    \/ Turn(h, YieldArbiter) /\ calls < MaxCalls /\ \E pair \in Pairs : call_signal_controller(h, pair) /\ UNCHANGED <<rt_vars, lock_vars, timeout_vars>>
    \/ Turn(h, YieldArbiter) /\ calls < MaxCalls /\ \E pair \in Pairs, priority \in 1..MaxPriority : call_vip_arrival(h, pair, priority) /\ UNCHANGED <<rt_vars, lock_vars, timeout_vars>>
    \/ Turn(h, YieldArbiter) /\ berkeley_get_ok(h) /\ UNCHANGED <<rt_vars, lock_vars, timeout_vars>>
    \/ Turn(h, YieldArbiter) /\ berkeley_get_fail(h) /\ UNCHANGED <<rt_vars, lock_vars, timeout_vars>>
    \/ Turn(h, YieldArbiter) /\ berkeley_set_ok(h) /\ UNCHANGED <<rt_vars, lock_vars, timeout_vars>>
    \/ Turn(h, YieldArbiter) /\ berkeley_set_fail(h) /\ UNCHANGED <<rt_vars, lock_vars, timeout_vars>>
    \/ Turn(h, YieldArbiter) /\ berkeley_adjust(h) /\ UNCHANGED <<rt_vars, lock_vars, timeout_vars>>
    \/ Turn(h, YieldArbiter) /\ vip_stamp(h) /\ UNCHANGED <<rt_vars, lock_vars, timeout_vars>>
    \/ Turn(h, YieldArbiter) /\ vip_enqueue(h) /\ UNCHANGED <<rt_vars, lock_vars, timeout_vars>>
    \/ Turn(h, YieldArbiter) /\ process_vip_requests_check(h) /\ UNCHANGED <<rt_vars, lock_vars, timeout_vars>>
    \/ Turn(h, YieldArbiter) /\ process_vip_requests_heads(h) /\ UNCHANGED <<rt_vars, lock_vars, timeout_vars>>
    \/ Turn(h, YieldArbiter) /\ process_vip_requests_index_error(h) /\ UNCHANGED <<rt_vars, lock_vars, timeout_vars>>
    \/ Turn(h, YieldArbiter) /\ serve_next_vip_pop(h) /\ UNCHANGED <<rt_vars, lock_vars, timeout_vars>>
    \/ Turn(h, YieldArbiter) /\ \E reply \in PedestrianReplies : serve_next_vip_ack(h, reply) /\ UNCHANGED <<rt_vars, lock_vars, timeout_vars>>
    \/ Turn(h, YieldArbiter) /\ serve_next_vip_current(h) /\ UNCHANGED <<rt_vars, lock_vars, timeout_vars>>
    \/ Turn(h, YieldArbiter) /\ let_vip_cross(h) /\ UNCHANGED <<rt_vars, lock_vars, timeout_vars>>
    \/ Turn(h, YieldArbiter) /\ handle_pedestrian_blink(h) /\ UNCHANGED <<rt_vars, lock_vars, timeout_vars>>
    \/ Turn(h, YieldArbiter) /\ handle_pedestrian_red(h) /\ UNCHANGED <<rt_vars, lock_vars, timeout_vars>>
    \/ Turn(h, YieldArbiter) /\ handle_pedestrian_yellow(h) /\ UNCHANGED <<rt_vars, lock_vars, timeout_vars>>
    \/ Turn(h, YieldArbiter) /\ handle_pedestrian_green(h) /\ UNCHANGED <<rt_vars, lock_vars, timeout_vars>>
    \/ Turn(h, YieldArbiter) /\ handle_traffic_yellow(h) /\ UNCHANGED <<rt_vars, lock_vars, timeout_vars>>
    \/ Turn(h, YieldArbiter) /\ handle_traffic_red(h) /\ UNCHANGED <<rt_vars, lock_vars, timeout_vars>>
    \/ Turn(h, YieldArbiter) /\ handle_traffic_green(h) /\ UNCHANGED <<rt_vars, lock_vars, timeout_vars>>
    \/ Turn(h, YieldArbiter) /\ signal_controller_check(h) /\ UNCHANGED <<rt_vars, lock_vars, timeout_vars>>
    \/ Turn(h, YieldArbiter) /\ \E reply \in PedestrianReplies : signal_controller_ack(h, reply) /\ UNCHANGED <<rt_vars, lock_vars, timeout_vars>>
    \/ Turn(h, YieldArbiter) /\ signal_controller_return(h) /\ UNCHANGED <<rt_vars, lock_vars, timeout_vars>>
    \/ Turn(h, YieldArbiter) /\ vip_arrival_return(h) /\ UNCHANGED <<rt_vars, lock_vars, timeout_vars>>

Spec == Init /\ [][Next]_vars

NextSignals ==
  \E h \in Handlers :
    \/ Turn(h, YieldSignals) /\ calls < MaxCalls /\ \E pair \in Pairs : call_signal_controller(h, pair) /\ UNCHANGED <<rt_vars, lock_vars, timeout_vars>>
    \/ Turn(h, YieldSignals) /\ calls < MaxCalls /\ \E pair \in Pairs, priority \in 1..MaxPriority : call_vip_arrival(h, pair, priority) /\ UNCHANGED <<rt_vars, lock_vars, timeout_vars>>
    \/ Turn(h, YieldSignals) /\ berkeley_get_ok(h) /\ UNCHANGED <<rt_vars, lock_vars, timeout_vars>>
    \/ Turn(h, YieldSignals) /\ berkeley_get_fail(h) /\ UNCHANGED <<rt_vars, lock_vars, timeout_vars>>
    \/ Turn(h, YieldSignals) /\ berkeley_set_ok(h) /\ UNCHANGED <<rt_vars, lock_vars, timeout_vars>>
    \/ Turn(h, YieldSignals) /\ berkeley_set_fail(h) /\ UNCHANGED <<rt_vars, lock_vars, timeout_vars>>
    \/ Turn(h, YieldSignals) /\ berkeley_adjust(h) /\ UNCHANGED <<rt_vars, lock_vars, timeout_vars>>
    \/ Turn(h, YieldSignals) /\ vip_stamp(h) /\ UNCHANGED <<rt_vars, lock_vars, timeout_vars>>
    \/ Turn(h, YieldSignals) /\ vip_enqueue(h) /\ UNCHANGED <<rt_vars, lock_vars, timeout_vars>>
    \/ Turn(h, YieldSignals) /\ process_vip_requests_check(h) /\ UNCHANGED <<rt_vars, lock_vars, timeout_vars>>
    \/ Turn(h, YieldSignals) /\ serve_next_vip_pop(h) /\ UNCHANGED <<rt_vars, lock_vars, timeout_vars>>
    \/ Turn(h, YieldSignals) /\ \E reply \in PedestrianReplies : serve_next_vip_ack(h, reply) /\ UNCHANGED <<rt_vars, lock_vars, timeout_vars>>
    \/ Turn(h, YieldSignals) /\ serve_next_vip_current(h) /\ UNCHANGED <<rt_vars, lock_vars, timeout_vars>>
    \/ Turn(h, YieldSignals) /\ let_vip_cross(h) /\ UNCHANGED <<rt_vars, lock_vars, timeout_vars>>
    \/ Turn(h, YieldSignals) /\ handle_pedestrian_blink(h) /\ UNCHANGED <<rt_vars, lock_vars, timeout_vars>>
    \/ Turn(h, YieldSignals) /\ handle_pedestrian_red(h) /\ UNCHANGED <<rt_vars, lock_vars, timeout_vars>>
    \/ Turn(h, YieldSignals) /\ handle_pedestrian_yellow(h) /\ UNCHANGED <<rt_vars, lock_vars, timeout_vars>>
    \/ Turn(h, YieldSignals) /\ handle_pedestrian_green(h) /\ UNCHANGED <<rt_vars, lock_vars, timeout_vars>>
    \/ Turn(h, YieldSignals) /\ handle_traffic_yellow(h) /\ UNCHANGED <<rt_vars, lock_vars, timeout_vars>>
    \/ Turn(h, YieldSignals) /\ handle_traffic_red(h) /\ UNCHANGED <<rt_vars, lock_vars, timeout_vars>>
    \/ Turn(h, YieldSignals) /\ handle_traffic_green(h) /\ UNCHANGED <<rt_vars, lock_vars, timeout_vars>>
    \/ Turn(h, YieldSignals) /\ signal_controller_check(h) /\ UNCHANGED <<rt_vars, lock_vars, timeout_vars>>
    \/ Turn(h, YieldSignals) /\ \E reply \in PedestrianReplies : signal_controller_ack(h, reply) /\ UNCHANGED <<rt_vars, lock_vars, timeout_vars>>
    \/ Turn(h, YieldSignals) /\ signal_controller_return(h) /\ UNCHANGED <<rt_vars, lock_vars, timeout_vars>>
    \/ Turn(h, YieldSignals) /\ vip_arrival_return(h) /\ UNCHANGED <<rt_vars, lock_vars, timeout_vars>>

SpecSignals == Init /\ [][NextSignals]_vars

NextClock ==
  \E h \in Handlers :
    \/ Turn(h, YieldClock) /\ calls < MaxCalls /\ \E pair \in Pairs : call_signal_controller(h, pair) /\ UNCHANGED <<rt_vars, lock_vars, timeout_vars>>
    \/ Turn(h, YieldClock) /\ calls < MaxCalls /\ \E pair \in Pairs, priority \in 1..MaxPriority : call_vip_arrival(h, pair, priority) /\ UNCHANGED <<rt_vars, lock_vars, timeout_vars>>
    \/ Turn(h, YieldClock) /\ berkeley_get_ok(h) /\ UNCHANGED <<rt_vars, lock_vars, timeout_vars>>
    \/ Turn(h, YieldClock) /\ berkeley_get_fail(h) /\ UNCHANGED <<rt_vars, lock_vars, timeout_vars>>
    \/ Turn(h, YieldClock) /\ berkeley_set_ok(h) /\ UNCHANGED <<rt_vars, lock_vars, timeout_vars>>
    \/ Turn(h, YieldClock) /\ berkeley_set_fail(h) /\ UNCHANGED <<rt_vars, lock_vars, timeout_vars>>
    \/ Turn(h, YieldClock) /\ berkeley_adjust(h) /\ UNCHANGED <<rt_vars, lock_vars, timeout_vars>>
    \/ Turn(h, YieldClock) /\ vip_stamp(h) /\ UNCHANGED <<rt_vars, lock_vars, timeout_vars>>
    \/ Turn(h, YieldClock) /\ vip_enqueue(h) /\ UNCHANGED <<rt_vars, lock_vars, timeout_vars>>
    \/ Turn(h, YieldClock) /\ process_vip_requests_check(h) /\ UNCHANGED <<rt_vars, lock_vars, timeout_vars>>
    \/ Turn(h, YieldClock) /\ serve_next_vip_pop(h) /\ UNCHANGED <<rt_vars, lock_vars, timeout_vars>>
    \/ Turn(h, YieldClock) /\ \E reply \in PedestrianReplies : serve_next_vip_ack(h, reply) /\ UNCHANGED <<rt_vars, lock_vars, timeout_vars>>
    \/ Turn(h, YieldClock) /\ serve_next_vip_current(h) /\ UNCHANGED <<rt_vars, lock_vars, timeout_vars>>
    \/ Turn(h, YieldClock) /\ let_vip_cross(h) /\ UNCHANGED <<rt_vars, lock_vars, timeout_vars>>
    \/ Turn(h, YieldClock) /\ handle_pedestrian_blink(h) /\ UNCHANGED <<rt_vars, lock_vars, timeout_vars>>
    \/ Turn(h, YieldClock) /\ handle_pedestrian_red(h) /\ UNCHANGED <<rt_vars, lock_vars, timeout_vars>>
    \/ Turn(h, YieldClock) /\ handle_pedestrian_yellow(h) /\ UNCHANGED <<rt_vars, lock_vars, timeout_vars>>
    \/ Turn(h, YieldClock) /\ handle_pedestrian_green(h) /\ UNCHANGED <<rt_vars, lock_vars, timeout_vars>>
    \/ Turn(h, YieldClock) /\ handle_traffic_yellow(h) /\ UNCHANGED <<rt_vars, lock_vars, timeout_vars>>
    \/ Turn(h, YieldClock) /\ handle_traffic_red(h) /\ UNCHANGED <<rt_vars, lock_vars, timeout_vars>>
    \/ Turn(h, YieldClock) /\ handle_traffic_green(h) /\ UNCHANGED <<rt_vars, lock_vars, timeout_vars>>
    \/ Turn(h, YieldClock) /\ signal_controller_check(h) /\ UNCHANGED <<rt_vars, lock_vars, timeout_vars>>
    \/ Turn(h, YieldClock) /\ \E reply \in PedestrianReplies : signal_controller_ack(h, reply) /\ UNCHANGED <<rt_vars, lock_vars, timeout_vars>>
    \/ Turn(h, YieldClock) /\ signal_controller_return(h) /\ UNCHANGED <<rt_vars, lock_vars, timeout_vars>>
    \/ Turn(h, YieldClock) /\ vip_arrival_return(h) /\ UNCHANGED <<rt_vars, lock_vars, timeout_vars>>

SpecClock == Init /\ [][NextClock]_vars

NextQueue ==
  \E h \in Handlers :
    \/ Turn(h, YieldQueue) /\ calls < MaxQueueCalls /\ \E pair \in Pairs : call_signal_controller(h, pair) /\ UNCHANGED <<rt_vars, lock_vars, timeout_vars>>
    \/ Turn(h, YieldQueue) /\ calls < MaxQueueCalls /\ \E pair \in Pairs, priority \in 1..MaxPriority : call_vip_arrival(h, pair, priority) /\ UNCHANGED <<rt_vars, lock_vars, timeout_vars>>
    \/ Turn(h, YieldQueue) /\ berkeley_get_ok(h) /\ UNCHANGED <<rt_vars, lock_vars, timeout_vars>>
    \/ Turn(h, YieldQueue) /\ berkeley_set_ok(h) /\ UNCHANGED <<rt_vars, lock_vars, timeout_vars>>
    \/ Turn(h, YieldQueue) /\ berkeley_adjust(h) /\ UNCHANGED <<rt_vars, lock_vars, timeout_vars>>
    \/ Turn(h, YieldQueue) /\ vip_stamp(h) /\ UNCHANGED <<rt_vars, lock_vars, timeout_vars>>
    \/ Turn(h, YieldQueue) /\ vip_enqueue(h) /\ UNCHANGED <<rt_vars, lock_vars, timeout_vars>>
    \/ Turn(h, YieldQueue) /\ process_vip_requests_check(h) /\ UNCHANGED <<rt_vars, lock_vars, timeout_vars>>
    \/ Turn(h, YieldQueue) /\ process_vip_requests_heads(h) /\ UNCHANGED <<rt_vars, lock_vars, timeout_vars>>
    \/ Turn(h, YieldQueue) /\ serve_next_vip_pop(h) /\ UNCHANGED <<rt_vars, lock_vars, timeout_vars>>
    \/ Turn(h, YieldQueue) /\ \E reply \in PedestrianReplies : serve_next_vip_ack(h, reply) /\ UNCHANGED <<rt_vars, lock_vars, timeout_vars>>
    \/ Turn(h, YieldQueue) /\ serve_next_vip_current(h) /\ UNCHANGED <<rt_vars, lock_vars, timeout_vars>>
    \/ Turn(h, YieldQueue) /\ let_vip_cross(h) /\ UNCHANGED <<rt_vars, lock_vars, timeout_vars>>
    \/ Turn(h, YieldQueue) /\ handle_pedestrian_blink(h) /\ UNCHANGED <<rt_vars, lock_vars, timeout_vars>>
    \/ Turn(h, YieldQueue) /\ handle_pedestrian_red(h) /\ UNCHANGED <<rt_vars, lock_vars, timeout_vars>>
    \/ Turn(h, YieldQueue) /\ handle_pedestrian_yellow(h) /\ UNCHANGED <<rt_vars, lock_vars, timeout_vars>>
    \/ Turn(h, YieldQueue) /\ handle_pedestrian_green(h) /\ UNCHANGED <<rt_vars, lock_vars, timeout_vars>>
    \/ Turn(h, YieldQueue) /\ handle_traffic_yellow(h) /\ UNCHANGED <<rt_vars, lock_vars, timeout_vars>>
    \/ Turn(h, YieldQueue) /\ handle_traffic_red(h) /\ UNCHANGED <<rt_vars, lock_vars, timeout_vars>>
    \/ Turn(h, YieldQueue) /\ handle_traffic_green(h) /\ UNCHANGED <<rt_vars, lock_vars, timeout_vars>>
    \/ Turn(h, YieldQueue) /\ signal_controller_check(h) /\ UNCHANGED <<rt_vars, lock_vars, timeout_vars>>
    \/ Turn(h, YieldQueue) /\ \E reply \in PedestrianReplies : signal_controller_ack(h, reply) /\ UNCHANGED <<rt_vars, lock_vars, timeout_vars>>
    \/ Turn(h, YieldQueue) /\ signal_controller_return(h) /\ UNCHANGED <<rt_vars, lock_vars, timeout_vars>>
    \/ Turn(h, YieldQueue) /\ vip_arrival_return(h) /\ UNCHANGED <<rt_vars, lock_vars, timeout_vars>>

SpecQueue == Init /\ [][NextQueue]_vars

\* the listener of main: serve_forever dispatches one request at a time
NextSerial ==
  \E h \in Handlers :
    \/ Turn(h, YieldSerial) /\ calls < MaxQueueCalls /\ \E pair \in Pairs : call_signal_controller(h, pair) /\ UNCHANGED <<rt_vars, lock_vars, timeout_vars>>
    \/ Turn(h, YieldSerial) /\ calls < MaxQueueCalls /\ \E pair \in Pairs, priority \in 1..MaxPriority : call_vip_arrival(h, pair, priority) /\ UNCHANGED <<rt_vars, lock_vars, timeout_vars>>
    \/ Turn(h, YieldSerial) /\ berkeley_get_ok(h) /\ UNCHANGED <<rt_vars, lock_vars, timeout_vars>>
    \/ Turn(h, YieldSerial) /\ berkeley_get_fail(h) /\ UNCHANGED <<rt_vars, lock_vars, timeout_vars>>
    \/ Turn(h, YieldSerial) /\ berkeley_set_ok(h) /\ UNCHANGED <<rt_vars, lock_vars, timeout_vars>>
    \/ Turn(h, YieldSerial) /\ berkeley_set_fail(h) /\ UNCHANGED <<rt_vars, lock_vars, timeout_vars>>
    \/ Turn(h, YieldSerial) /\ berkeley_adjust(h) /\ UNCHANGED <<rt_vars, lock_vars, timeout_vars>>
    \/ Turn(h, YieldSerial) /\ vip_stamp(h) /\ UNCHANGED <<rt_vars, lock_vars, timeout_vars>>
    \/ Turn(h, YieldSerial) /\ vip_enqueue(h) /\ UNCHANGED <<rt_vars, lock_vars, timeout_vars>>
    \/ Turn(h, YieldSerial) /\ process_vip_requests_check(h) /\ UNCHANGED <<rt_vars, lock_vars, timeout_vars>>
    \/ Turn(h, YieldSerial) /\ serve_next_vip_pop(h) /\ UNCHANGED <<rt_vars, lock_vars, timeout_vars>>
    \/ Turn(h, YieldSerial) /\ \E reply \in PedestrianReplies : serve_next_vip_ack(h, reply) /\ UNCHANGED <<rt_vars, lock_vars, timeout_vars>>
    \/ Turn(h, YieldSerial) /\ serve_next_vip_current(h) /\ UNCHANGED <<rt_vars, lock_vars, timeout_vars>>
    \/ Turn(h, YieldSerial) /\ let_vip_cross(h) /\ UNCHANGED <<rt_vars, lock_vars, timeout_vars>>
    \/ Turn(h, YieldSerial) /\ handle_pedestrian_blink(h) /\ UNCHANGED <<rt_vars, lock_vars, timeout_vars>>
    \/ Turn(h, YieldSerial) /\ handle_pedestrian_red(h) /\ UNCHANGED <<rt_vars, lock_vars, timeout_vars>>
    \/ Turn(h, YieldSerial) /\ handle_pedestrian_yellow(h) /\ UNCHANGED <<rt_vars, lock_vars, timeout_vars>>
    \/ Turn(h, YieldSerial) /\ handle_pedestrian_green(h) /\ UNCHANGED <<rt_vars, lock_vars, timeout_vars>>
    \/ Turn(h, YieldSerial) /\ handle_traffic_yellow(h) /\ UNCHANGED <<rt_vars, lock_vars, timeout_vars>>
    \/ Turn(h, YieldSerial) /\ handle_traffic_red(h) /\ UNCHANGED <<rt_vars, lock_vars, timeout_vars>>
    \/ Turn(h, YieldSerial) /\ handle_traffic_green(h) /\ UNCHANGED <<rt_vars, lock_vars, timeout_vars>>
    \/ Turn(h, YieldSerial) /\ signal_controller_check(h) /\ UNCHANGED <<rt_vars, lock_vars, timeout_vars>>
    \/ Turn(h, YieldSerial) /\ \E reply \in PedestrianReplies : signal_controller_ack(h, reply) /\ UNCHANGED <<rt_vars, lock_vars, timeout_vars>>
    \/ Turn(h, YieldSerial) /\ signal_controller_return(h) /\ UNCHANGED <<rt_vars, lock_vars, timeout_vars>>
    \/ Turn(h, YieldSerial) /\ vip_arrival_return(h) /\ UNCHANGED <<rt_vars, lock_vars, timeout_vars>>


SpecSerial == Init /\ [][NextSerial]_vars

\* the thread that runs a handler keeps running: every sleep of a transition ends
SpecSerialFair == SpecSerial /\ WF_vars(NextSerial)

\* ------------------------------------------------------------- state_lock
\* an access made inside a `with state_lock:` block, and one made outside
Locked(object, mode) == [object |-> object, mode |-> mode, locked |-> TRUE]
Unlocked(object, mode) == [object |-> object, mode |-> mode, locked |-> FALSE]

\* log_vip_queues: queue = vip_queues[direction]; for i, vip in enumerate(queue)
log_vip_queues_accesses == {Unlocked("vip_queues", "read")}

\* vip_arrival: the append and sort, log_vip_queues("After VIP Registration"), the
\* deadlock check and _log_deadlock_analysis
vip_enqueue_accesses ==
  {Locked("vip_queues", "write"), Locked("vip_queues", "read")} \cup log_vip_queues_accesses

\* _serve_next_vip: after _let_vip_cross, log_vip_queues("After VIP Service")
let_vip_cross_accesses == log_vip_queues_accesses

\* signal_controller: vip_count under the lock; if vip_count > 0:
\* log_vip_queues("VIPs blocking normal traffic")
signal_controller_check_accesses ==
  {Locked("vip_queues", "read")} \cup
    (IF Len(vip_queues["12"]) + Len(vip_queues["34"]) > 0 THEN log_vip_queues_accesses ELSE {})

\* log_mutex_state: _current_green_pair(), the queue lengths, and signal_status in
\* the last print
log_mutex_state_accesses ==
  {Locked("signal_status", "read"), Locked("vip_queues", "read"),
   Unlocked("signal_status", "read")}

\* a delay, a remote call or an acquisition of state_lock, made while holding
\* state_lock or not
Blocking(call, locked) == [call |-> call, locked |-> locked]

\* berkeley_cycle_once and _get_pedestrian_ack call their peers outside any
\* `with state_lock:` block
remote_call_blocking(call) == {Blocking(call, FALSE)}

\* _current_green_pair() takes state_lock itself; _serve_next_vip and log_mutex_state
\* call it outside their own blocks
current_green_pair_blocking == {Blocking("state_lock", FALSE)}

\* _let_vip_cross: time.sleep(1), VIP_CROSSING_TIME times, no lock taken
let_vip_cross_blocking == {Blocking("time.sleep", FALSE)}

\* a variant that sleeps inside the `with state_lock:` block of the blink loop
handle_pedestrian_blink_blocking_held == {Blocking("time.sleep", TRUE)}

\* handle_pedestrian_signals: time.sleep(1) after the block of each blink
handle_pedestrian_blink_blocking == {Blocking("time.sleep", FALSE)}

\* handle_pedestrian_signals: time.sleep(5) after the YELLOW block
handle_pedestrian_yellow_blocking == {Blocking("time.sleep", FALSE)}

\* handle_traffic_signals: time.sleep(2) after the YELLOW block
handle_traffic_yellow_blocking == {Blocking("time.sleep", FALSE)}

\* the last step of a handler is still in a delay or a call it made holding state_lock
StateLockBusy == \E b \in blocking : b.locked

\* get_signal_status(): with state_lock: return signal_status.copy()
get_signal_status_rpc ==
  /\ ~StateLockBusy
  /\ access' = {Locked("signal_status", "read")}
  /\ UNCHANGED <<ctl_vars, rt_vars, blocking, timeout_vars>>

\* get_vip_status(): with state_lock: the ids and priorities of both queues
get_vip_status_rpc ==
  /\ ~StateLockBusy
  /\ access' = {Locked("vip_queues", "read")}
  /\ UNCHANGED <<ctl_vars, rt_vars, blocking, timeout_vars>>

\* the handlers with the accesses of each step recorded; a handler is overtaken only
\* between two iterations of the drain loop; the two status calls are served at any
\* time
NextLock ==
  \/ \E h \in Handlers :
        \/ Turn(h, YieldQueue) /\ calls < MaxCalls /\ \E pair \in Pairs : call_signal_controller(h, pair) /\ access' = {} /\ blocking' = {} /\ UNCHANGED <<rt_vars, timeout_vars>>
        \/ Turn(h, YieldQueue) /\ calls < MaxCalls /\ \E pair \in Pairs, priority \in 1..MaxPriority : call_vip_arrival(h, pair, priority) /\ access' = {} /\ blocking' = {} /\ UNCHANGED <<rt_vars, timeout_vars>>
        \/ Turn(h, YieldQueue) /\ berkeley_get_ok(h) /\ access' = {} /\ blocking' = remote_call_blocking("get_clock_value") /\ UNCHANGED <<rt_vars, timeout_vars>>
        \/ Turn(h, YieldQueue) /\ berkeley_set_ok(h) /\ access' = {} /\ blocking' = remote_call_blocking("set_time") /\ UNCHANGED <<rt_vars, timeout_vars>>
        \/ Turn(h, YieldQueue) /\ berkeley_adjust(h) /\ access' = {} /\ blocking' = {} /\ UNCHANGED <<rt_vars, timeout_vars>>
        \/ Turn(h, YieldQueue) /\ vip_stamp(h) /\ access' = {} /\ blocking' = {} /\ UNCHANGED <<rt_vars, timeout_vars>>
        \/ Turn(h, YieldQueue) /\ vip_enqueue(h) /\ access' = vip_enqueue_accesses /\ blocking' = {} /\ UNCHANGED <<rt_vars, timeout_vars>>
        \/ Turn(h, YieldQueue) /\ process_vip_requests_check(h) /\ access' = {Locked("vip_queues", "read")} /\ blocking' = {} /\ UNCHANGED <<rt_vars, timeout_vars>>
        \/ Turn(h, YieldQueue) /\ process_vip_requests_heads(h) /\ access' = {Locked("vip_queues", "read")} /\ blocking' = {} /\ UNCHANGED <<rt_vars, timeout_vars>>
        \/ Turn(h, YieldQueue) /\ serve_next_vip_pop(h) /\ access' = {Locked("vip_queues", "read"), Locked("vip_queues", "write")} /\ blocking' = {} /\ UNCHANGED <<rt_vars, timeout_vars>>
        \/ Turn(h, YieldQueue) /\ \E reply \in PedestrianReplies : serve_next_vip_ack(h, reply) /\ access' = {} /\ blocking' = remote_call_blocking("p_signal") /\ UNCHANGED <<rt_vars, timeout_vars>>
        \/ Turn(h, YieldQueue) /\ serve_next_vip_current(h) /\ access' = {Locked("signal_status", "read")} /\ blocking' = current_green_pair_blocking /\ UNCHANGED <<rt_vars, timeout_vars>>
        \/ Turn(h, YieldQueue) /\ let_vip_cross(h) /\ access' = let_vip_cross_accesses /\ blocking' = let_vip_cross_blocking /\ UNCHANGED <<rt_vars, timeout_vars>>
        \/ Turn(h, YieldQueue) /\ handle_pedestrian_blink(h) /\ access' = {Locked("signal_status", "write")} /\ blocking' = handle_pedestrian_blink_blocking /\ UNCHANGED <<rt_vars, timeout_vars>>
        \/ Turn(h, YieldQueue) /\ handle_pedestrian_red(h) /\ access' = {Locked("signal_status", "write")} /\ blocking' = {} /\ UNCHANGED <<rt_vars, timeout_vars>>
        \/ Turn(h, YieldQueue) /\ handle_pedestrian_yellow(h) /\ access' = {Locked("signal_status", "write")} /\ blocking' = handle_pedestrian_yellow_blocking /\ UNCHANGED <<rt_vars, timeout_vars>>
        \/ Turn(h, YieldQueue) /\ handle_pedestrian_green(h) /\ access' = {Locked("signal_status", "write")} /\ blocking' = {} /\ UNCHANGED <<rt_vars, timeout_vars>>
        \/ Turn(h, YieldQueue) /\ handle_traffic_yellow(h) /\ access' = {Locked("signal_status", "write")} /\ blocking' = handle_traffic_yellow_blocking /\ UNCHANGED <<rt_vars, timeout_vars>>
        \/ Turn(h, YieldQueue) /\ handle_traffic_red(h) /\ access' = {Locked("signal_status", "write")} /\ blocking' = {} /\ UNCHANGED <<rt_vars, timeout_vars>>
        \/ Turn(h, YieldQueue) /\ handle_traffic_green(h) /\ access' = {Locked("signal_status", "write")} /\ blocking' = {} /\ UNCHANGED <<rt_vars, timeout_vars>>
        \/ Turn(h, YieldQueue) /\ signal_controller_check(h) /\ access' = signal_controller_check_accesses /\ blocking' = {} /\ UNCHANGED <<rt_vars, timeout_vars>>
        \/ Turn(h, YieldQueue) /\ \E reply \in PedestrianReplies : signal_controller_ack(h, reply) /\ access' = {} /\ blocking' = remote_call_blocking("p_signal") /\ UNCHANGED <<rt_vars, timeout_vars>>
        \/ Turn(h, YieldQueue) /\ signal_controller_return(h) /\ access' = log_mutex_state_accesses /\ blocking' = current_green_pair_blocking /\ UNCHANGED <<rt_vars, timeout_vars>>
        \/ Turn(h, YieldQueue) /\ vip_arrival_return(h) /\ access' = {} /\ blocking' = {} /\ UNCHANGED <<rt_vars, timeout_vars>>
  \/ get_signal_status_rpc
  \/ get_vip_status_rpc

SpecLock == Init /\ [][NextLock]_vars

\* ------------------------------------------------------------------ router
\* src/trial_zookeeper.py: ZooKeeperLoadBalancer with its ControllerState objects and
\* its health-check thread.  Forwarders are the tasks that run forward_request.
Registered == {controllers[k] : k \in 1 .. Len(controllers)}

\* ControllerState.is_free
is_free(c) == Len(active_requests[c]) < BUFFER_SIZE /\ is_available[c]

\* min(candidates, key=...): the first of the candidates, in the order of the
\* dictionary, whose key is minimal
FirstMin(candidates, key) ==
  LET k == CHOOSE k \in 1 .. Len(controllers) :
             /\ controllers[k] \in candidates
             /\ \A j \in 1 .. Len(controllers) :
                  controllers[j] \in candidates =>
                    \/ key[controllers[k]] < key[controllers[j]]
                    \/ key[controllers[k]] = key[controllers[j]] /\ k <= j
  IN controllers[k]

\* the keys of the selection: len(c.active_requests) and c.total_processed
InFlight(c) == Len(active_requests[c])
in_flight == [c \in Instances |-> InFlight(c)]

\* a first branch that takes any instance below its capacity
free_controllers_nonempty == {c \in Registered : is_free(c)}

\* the instances of the first and of the second branch of get_available_controller
free_controllers == {c \in Registered : is_free(c) /\ InFlight(c) = 0}
available_controllers == {c \in Registered : is_free(c)}

\* a variant without the limit
CloneLimitNever == FALSE

\* DynamicCloneManager.create_dynamic_clone: refused at the maximum
CloneLimitReached == Len(controllers) - Len(BASE_CONTROLLERS) >= MAX_DYNAMIC_CLONES

\* a selection that never provisions
SelectionTierNoClone(started) ==
  IF free_controllers # {} THEN 1
  ELSE IF available_controllers # {} THEN 2
  ELSE 4

\* the branch get_available_controller takes; started says whether the clone process
\* came up and answered ping
SelectionTier(started) ==
  IF free_controllers # {} THEN 1
  ELSE IF available_controllers # {} THEN 2
  ELSE IF ~CloneLimitReached /\ started THEN 3
  ELSE 4

\* the instance get_available_controller returns
SelectedController(started) ==
  CASE SelectionTier(started) = 1 -> FirstMin(free_controllers, total_processed)
    [] SelectionTier(started) = 2 -> FirstMin(available_controllers, in_flight)
    [] SelectionTier(started) = 3 -> Len(controllers) + 1
    [] OTHER -> FirstMin(Registered, in_flight)

\* deque(maxlen=BUFFER_SIZE).append: a full deque drops its oldest entry
add_request(q, request_id) ==
  IF Len(q) >= BUFFER_SIZE THEN Append(Tail(q), request_id) ELSE Append(q, request_id)

\* a completion that leaves the id in place
complete_request_keep(q, request_id) == q

\* active_requests.remove(request_id)
complete_request(q, request_id) == SelectSeq(q, LAMBDA x : x # request_id)

InQueue(q, request_id) == \E k \in 1 .. Len(q) : q[k] = request_id

\* A step that calls a method of DatabaseManager (log_request,
\* update_controller_status) takes DatabaseManager.lock for the call; while the lock
\* is held by another task the step waits, and is not taken.

\* the listener hands the f-th call to forwarder f
FreeForwarder(f) == fw[f].pc = "idle" /\ f = routed + 1

\* RPC signal_controller / vip_arrival of the router: forward_request is entered,
\* request_id = uuid
call_forward_request(f) ==
  /\ FreeForwarder(f)
  /\ routed' = routed + 1
  /\ fw' = [fw EXCEPT ![f] = [NoFw EXCEPT !.pc = "select", !.depth = 1, !.request_id = <<f, 1>>]]
  /\ UNCHANGED <<controllers, is_available, active_requests, total_processed, hc, db_lock, status_pc>>

\* with self.lock: the four branches of get_available_controller
get_available_controller(f, started) ==
  /\ fw[f].pc = "select"
  /\ SelectionTier(started) = 3 => ~db_lock
  /\ LET tier == SelectionTier(started)
         c == SelectedController(started)
     IN /\ fw' = [fw EXCEPT ![f].pc = "add", ![f].controller = c, ![f].tier = tier,
                            ![f].provision =
                               IF free_controllers # {} \/ available_controllers # {} THEN "none"
                               ELSE IF CloneLimitReached THEN "max"
                               ELSE IF started THEN "created" ELSE "failed"]
        /\ IF tier = 3
             THEN /\ controllers' = Append(controllers, c)
                  /\ is_available' = [is_available EXCEPT ![c] = TRUE]
                  /\ active_requests' = [active_requests EXCEPT ![c] = <<>>]
                  /\ total_processed' = [total_processed EXCEPT ![c] = 0]
             ELSE UNCHANGED <<controllers, is_available, active_requests, total_processed>>
  /\ UNCHANGED <<routed, hc, db_lock, status_pc>>

\* controller.add_request(request_id)
forward_request_add(f) ==
  /\ fw[f].pc = "add"
  /\ ~db_lock
  /\ active_requests' = [active_requests EXCEPT
                           ![fw[f].controller] = add_request(@, fw[f].request_id)]
  /\ fw' = [fw EXCEPT ![f].pc = "forward"]
  /\ UNCHANGED <<controllers, is_available, total_processed, routed, hc, db_lock, status_pc>>

\* ControllerState.complete_request on instance c
Completed(c, request_id) ==
  /\ active_requests' = [active_requests EXCEPT ![c] = complete_request(@, request_id)]
  /\ total_processed' = [total_processed EXCEPT ![c] =
                           IF InQueue(active_requests[c], request_id) THEN @ + 1 ELSE @]

\* the backend answered: complete_request, return result
forward_request_ok(f) ==
  /\ fw[f].pc = "forward"
  /\ ~db_lock
  /\ Completed(fw[f].controller, fw[f].request_id)
  /\ fw' = [fw EXCEPT ![f].pc = "done", ![f].failed_on = 0]
  /\ UNCHANGED <<controllers, is_available, routed, hc, db_lock, status_pc>>

\* the call raised (timeout, transport error): complete_request,
\* is_available = False, return self.forward_request(...) with a new request_id
forward_request_fail(f) ==
  /\ fw[f].pc = "forward"
  /\ ~db_lock
  /\ fw[f].depth < MaxDepth
  /\ Completed(fw[f].controller, fw[f].request_id)
  /\ is_available' = [is_available EXCEPT ![fw[f].controller] = FALSE]
  /\ fw' = [fw EXCEPT ![f].pc = "select", ![f].depth = @ + 1,
                      ![f].request_id = <<f, fw[f].depth + 1>>,
                      ![f].failed_on = fw[f].controller]
  /\ UNCHANGED <<controllers, routed, hc, db_lock, status_pc>>

\* health_check_loop: for name, controller in self.controllers.items() starts
health_check_round ==
  /\ hc.pc = "sleep"
  /\ hc' = [pc |-> "ping", i |-> 1, size |-> Len(controllers)]
  /\ UNCHANGED <<controllers, is_available, active_requests, total_processed, routed, fw, db_lock, status_pc>>

\* the for statement asks its iterator for the next item: RuntimeError (dictionary
\* changed size during iteration) ends the thread; after the last item, time.sleep(5)
AfterPing ==
  IF Len(controllers) # hc.size THEN [hc EXCEPT !.pc = "crashed"]
  ELSE IF hc.i = hc.size THEN NoHc
  ELSE [hc EXCEPT !.i = @ + 1]

\* proxy.ping() answered "OK": is_available = True
health_check_ok ==
  /\ hc.pc = "ping"
  /\ ~db_lock
  /\ is_available' = [is_available EXCEPT ![controllers[hc.i]] = TRUE]
  /\ fw' = [g \in Forwarders |->
              IF fw[g].failed_on = controllers[hc.i] THEN [fw[g] EXCEPT !.failed_on = 0]
              ELSE fw[g]]
  /\ hc' = AfterPing
  /\ UNCHANGED <<controllers, active_requests, total_processed, routed, db_lock, status_pc>>

\* proxy.ping() raised: is_available = False
health_check_fail ==
  /\ hc.pc = "ping"
  /\ ~db_lock
  /\ is_available' = [is_available EXCEPT ![controllers[hc.i]] = FALSE]
  /\ hc' = AfterPing
  /\ UNCHANGED <<controllers, active_requests, total_processed, routed, fw, db_lock, status_pc>>

\* router under load: overlapping forwarders, every backend answers

\* RPC get_system_status: DatabaseManager.get_system_stats takes self.lock, reads the
\* controller and request tables, and comes to signals = self.get_signal_status()
call_get_system_status ==
  /\ status_pc = "idle"
  /\ ~db_lock
  /\ db_lock' = TRUE
  /\ status_pc' = "stats_signals"
  /\ UNCHANGED <<controllers, is_available, active_requests, total_processed, routed, fw, hc>>

\* RPC get_signal_status: comes to self.db.get_signal_status()
call_get_signal_status ==
  /\ status_pc = "idle"
  /\ status_pc' = "rpc_signals"
  /\ UNCHANGED <<controllers, is_available, active_requests, total_processed, routed, fw, hc,
                 db_lock>>

\* DatabaseManager.get_signal_status: with self.lock (threading.Lock, not reentrant):
\* read the table, return; its caller returns in turn, get_system_stats leaving its
\* own with block
get_signal_status ==
  /\ status_pc \in {"stats_signals", "rpc_signals"}
  /\ ~db_lock
  /\ db_lock' = FALSE
  /\ status_pc' = "idle"
  /\ UNCHANGED <<controllers, is_available, active_requests, total_processed, routed, fw, hc>>

NextRouter ==
  \E f \in Forwarders :
    \/ call_forward_request(f) /\ routed < MaxRouterCalls /\ UNCHANGED <<ctl_vars, lock_vars, timeout_vars>>
    \/ (\E started \in BOOLEAN : get_available_controller(f, started)) /\ UNCHANGED <<ctl_vars, lock_vars, timeout_vars>>
    \/ forward_request_add(f) /\ UNCHANGED <<ctl_vars, lock_vars, timeout_vars>>
    \/ forward_request_ok(f) /\ UNCHANGED <<ctl_vars, lock_vars, timeout_vars>>

SpecRouter == Init /\ [][NextRouter]_vars

\* router with failing backends and the health-check thread
NextRouterFaults ==
  \/ \E f \in Forwarders :
       \/ call_forward_request(f) /\ routed < MaxFaultCalls /\ UNCHANGED <<ctl_vars, lock_vars, timeout_vars>>
       \/ (\E started \in BOOLEAN : get_available_controller(f, started)) /\ UNCHANGED <<ctl_vars, lock_vars, timeout_vars>>
       \/ forward_request_add(f) /\ UNCHANGED <<ctl_vars, lock_vars, timeout_vars>>
       \/ forward_request_ok(f) /\ UNCHANGED <<ctl_vars, lock_vars, timeout_vars>>
       \/ forward_request_fail(f) /\ UNCHANGED <<ctl_vars, lock_vars, timeout_vars>>
  \/ health_check_round /\ UNCHANGED <<ctl_vars, lock_vars, timeout_vars>>
  \/ health_check_ok /\ UNCHANGED <<ctl_vars, lock_vars, timeout_vars>>
  \/ health_check_fail /\ UNCHANGED <<ctl_vars, lock_vars, timeout_vars>>

SpecRouterFaults == Init /\ [][NextRouterFaults]_vars

\* what `except Exception` catches: the instance could not be reached, or it took
\* the request and did not answer within RESPONSE_TIMEOUT
CallFailures == {"unreachable", "timeout"}

\* TimeoutTransport: conn.timeout ends the wait of the router only; the handler of
\* the instance (no cancellation in src/trial_controller.py) runs on
ExecutingAfter(reason, c) == IF reason = "timeout" THEN {c} ELSE {}

\* the forwarders with failing attempts, the instances that run a request recorded;
\* without the health thread
NextRouterTimeout ==
  \E f \in Forwarders :
    \/ call_forward_request(f) /\ routed < MaxFaultCalls
         /\ executed_on' = [executed_on EXCEPT ![f] = {}] /\ UNCHANGED <<ctl_vars, lock_vars>>
    \/ (\E started \in BOOLEAN : get_available_controller(f, started))
         /\ UNCHANGED <<ctl_vars, lock_vars, timeout_vars>>
    \/ forward_request_add(f) /\ UNCHANGED <<ctl_vars, lock_vars, timeout_vars>>
    \/ forward_request_ok(f)
         /\ executed_on' = [executed_on EXCEPT ![f] = @ \cup {fw[f].controller}]
         /\ UNCHANGED <<ctl_vars, lock_vars>>
    \/ forward_request_fail(f)
         /\ \E reason \in CallFailures :
              executed_on' = [executed_on EXCEPT
                                ![f] = @ \cup ExecutingAfter(reason, fw[f].controller)]
         /\ UNCHANGED <<ctl_vars, lock_vars>>

SpecRouterTimeout == Init /\ [][NextRouterTimeout]_vars

\* router with the status calls
NextRouterStatus ==
  \/ \E f \in Forwarders :
       \/ call_forward_request(f) /\ routed < MaxFaultCalls /\ UNCHANGED <<ctl_vars, lock_vars, timeout_vars>>
       \/ (\E started \in BOOLEAN : get_available_controller(f, started)) /\ UNCHANGED <<ctl_vars, lock_vars, timeout_vars>>
       \/ forward_request_add(f) /\ UNCHANGED <<ctl_vars, lock_vars, timeout_vars>>
       \/ forward_request_ok(f) /\ UNCHANGED <<ctl_vars, lock_vars, timeout_vars>>
  \/ health_check_round /\ UNCHANGED <<ctl_vars, lock_vars, timeout_vars>>
  \/ health_check_ok /\ UNCHANGED <<ctl_vars, lock_vars, timeout_vars>>
  \/ call_get_system_status /\ UNCHANGED <<ctl_vars, lock_vars, timeout_vars>>
  \/ call_get_signal_status /\ UNCHANGED <<ctl_vars, lock_vars, timeout_vars>>
  \/ get_signal_status /\ UNCHANGED <<ctl_vars, lock_vars, timeout_vars>>

SpecRouterStatus == Init /\ [][NextRouterStatus]_vars

\* ------------------------------------------------------------------ claims
\* h has printed the ACQUIRED line of its critical section and not yet the RELEASED one
InCS(h) == pc[h] \in ({"cross", "sc_done"} \cup SwitchPcs)

\* handler h pops a VIP request in this step
Pops(h) == pc[h] = "serve_pop" /\ pc'[h] = "serve_ack"

Quiescent == \A h \in Handlers : pc[h] \notin SwitchPcs

PairIsGreen(p) ==
  /\ \A s \in VehicleGroup(p) : signal_status[s] = "GREEN"
  /\ \A s \in VehicleGroup(OtherPair(p)) : signal_status[s] = "RED"

PedestrianOf(s) == "P" \o s

PassedOverTwice(i) ==
  /\ served[i].vip.target_pair = served[i - 1].vip.target_pair
  /\ served[i].passed \cap served[i - 1].passed # {}

RECURSIVE SumOffsets(_)
SumOffsets(answers) ==
  IF answers = <<>> THEN 0 ELSE answers[1][2] + SumOffsets(Tail(answers))

Responders(answers) == {answers[i][1] : i \in 1 .. Len(answers)}

\* C8: the average of a cycle is the sum of the offsets answered in this cycle plus
\* the coordinator's 0, divided by the number of answers plus one; a peer whose
\* get_clock_value failed is in neither.
AverageOverResponders ==
  \A h \in Handlers :
    pc[h] \in {"bk_set", "bk_adj"} =>
      /\ bk[h].avg_offset = (SumOffsets(bk[h].answered) + 0) \div (Len(bk[h].answered) + 1)
      /\ bk[h].new_epoch = bk[h].server_time + bk[h].avg_offset

\* C8: a cycle in which one peer answered and the other did not has computed its
\* average
AverageWithOnePeerMissing ==
  \E h \in Handlers :
    /\ pc[h] = "bk_set"
    /\ Len(bk[h].answered) = 1
    /\ bk[h].avg_offset # 0

\* C9: set_time is sent exactly to the peers whose get_clock_value succeeded in the
\* same cycle, and a cycle changes the skew only of such a peer.
SetTimeOnlyToResponders ==
  /\ [](\A h \in Handlers :
          /\ pc[h] = "bk_adj" => bk[h].sent = Responders(bk[h].answered)
          /\ pc[h] = "bk_set" => bk[h].sent \subseteq Responders(bk[h].answered))
  /\ [][\A n \in PeerNames :
          local_skew'[n] # local_skew[n]
            => \E h \in Handlers : pc[h] = "bk_set" /\ n \in Responders(bk[h].answered)]_vars

\* C9: the only cycle so far has pushed the new time to t_signal alone; p_signal
\* did not answer and keeps its skew
SetTimeSkippedNonResponder ==
  /\ calls = 1
  /\ pc[1] = "bk_adj"
  /\ bk[1].sent = {"t_signal"}
  /\ local_skew["p_signal"] = PSignalInitialSkew
  /\ local_skew["t_signal"] # TSignalInitialSkew

\* the steps a handler still has to take inside berkeley_cycle_once, at most
BerkeleyRank(h) ==
  CASE pc[h] = "bk_get" -> 2 * Len(CLIENTS) + 3 - bk[h].i
    [] pc[h] = "bk_set" -> Len(CLIENTS) + 2 - bk[h].i
    [] pc[h] = "bk_adj" -> 1
    [] OTHER -> 0

\* C10: every step of a Berkeley cycle, failed peer calls included, brings the
\* cycle nearer to its end, and the cycle ends in the arbitration of the enclosing
\* call: no peer failure makes the request end or fail.
BerkeleyAlwaysCompletes ==
  /\ [](\A h \in Handlers : pc[h] \in BerkeleyPcs => result[h] = "none" /\ BerkeleyRank(h) > 0)
  /\ [][\A h \in Handlers :
          (pc[h] \in BerkeleyPcs /\ <<pc[h], bk[h]>>' # <<pc[h], bk[h]>>)
            => /\ pc'[h] \in (BerkeleyPcs \cup {AfterBerkeley(h)})
               /\ BerkeleyRank(h)' < BerkeleyRank(h)]_vars

\* C10: the only call so far has come out of a cycle in which both peer calls
\* failed, and stands at its arbitration
CycleCompletedDespiteFailures ==
  /\ calls = 1
  /\ failures = 2
  /\ pc[1] \in {"vip_stamp", "sc_check"}
  /\ result[1] = "none"

\* every request taken out of a queue stays out of the queues
PoppedStaysOut ==
  \A i \in 1 .. Len(served) : \A k \in Pairs :
    served[i].vip.vehicle_id \notin QueuedIds(vip_queues[k])

\* no request is taken out of a queue twice
PoppedOnce ==
  \A i \in 1 .. Len(served) : \A j \in 1 .. Len(served) :
    (i # j) => served[i].vip.vehicle_id # served[j].vip.vehicle_id

\* C11: when the pedestrian node answers DENY for a VIP being served, the VIP is
\* already out of its queue, the denial changes no signal and the handler goes back
\* to the drain loop without a transition or a crossing; the VIP is never queued
\* or taken for service again.
DeniedVipIsDropped ==
  /\ [](PoppedStaysOut /\ PoppedOnce)
  /\ [][\A h \in Handlers :
          (pc[h] = "serve_ack" /\ dr'[h].vote = "DENY")
            => /\ pc'[h] = "drain_check"
               /\ signal_status' = signal_status
               /\ vip_queues' = vip_queues
               /\ \A k \in Pairs : dr[h].vip.vehicle_id \notin QueuedIds(vip_queues[k])]_vars

\* C11: a handler has just been denied the VIP it had popped
VipJustDenied ==
  \E h \in Handlers :
    /\ pc[h] = "drain_check"
    /\ dr[h].vote = "DENY"
    /\ dr[h].vip.vehicle_id \in {served[i].vip.vehicle_id : i \in 1 .. Len(served)}

\* C12: whenever the pedestrian node denies the transition requested by a call, the
\* caller of that call receives False, for signal_controller and vip_arrival alike.
CallerLearnsOfDenial ==
  [][\A h \in Handlers :
       /\ (pc[h] = "sc_ack" /\ pc'[h] = "idle") => result'[h] = "False"
       /\ (pc[h] = "ret_true" /\ pc'[h] = "idle" /\ req[h].denied)
            => result'[h] = "False"]_vars

\* C13: an unreachable pedestrian node counts as a grant: the normal request goes
\* on to its transition and the VIP request to its service, as after OK.
UnreachableIsGrant ==
  /\ [](\A h \in Handlers :
          pc[h] = "sc_ack" =>
            ENABLED (signal_controller_ack(h, "UNREACHABLE") /\ pc'[h] = "ped_blink"))
  /\ [][\A h \in Handlers :
          /\ (pc[h] = "sc_ack" /\ sw'[h].vote = "UNREACHABLE")
               => /\ pc'[h] = "ped_blink"
                  /\ sw'[h].target = req[h].pair
                  /\ result'[h] = "none"
          /\ (pc[h] = "serve_ack" /\ dr'[h].vote = "UNREACHABLE")
               => /\ pc'[h] = "serve_cur"
                  /\ req' = req]_vars

\* C13: a normal request has started its transition after the pedestrian node
\* could not be reached
ProceededWithoutVote ==
  \E h \in Handlers :
    /\ pc[h] = "ped_blink"
    /\ sw[h].vote = "UNREACHABLE"
    /\ sw[h].target = req[h].pair

\* in status: pair p GREEN, the other pair RED, pedestrian signals complementary,
\* but for the signals of group, which have the given colour
ConsistentBut(status, p, group, colour) ==
  /\ \A s \in group : status[s] = colour
  /\ \A s \in Signals \ group :
       status[s] = IF s \in VehicleGroup(p) \cup PedestrianGroup(OtherPair(p))
                     THEN "GREEN" ELSE "RED"

\* in status: pair p GREEN, the other pair RED, pedestrian signals complementary
Consistent(status, p) == ConsistentBut(status, p, {}, "RED")

\* what the signals are at position <<at, i>> of a _switch_to(p) that started from
\* Consistent(p)
IdempotentSoFar(status, at, i, p) ==
  CASE at = "ped_blink" /\ i > 0 -> ConsistentBut(status, p, PedestrianGroup(p), "BLINKING RED")
    [] at = "ped_red" -> ConsistentBut(status, p, PedestrianGroup(p), "BLINKING RED")
    [] at = "ped_green" -> ConsistentBut(status, p, PedestrianGroup(OtherPair(p)), "YELLOW")
    [] at = "veh_red" -> ConsistentBut(status, p, VehicleGroup(OtherPair(p)), "YELLOW")
    [] OTHER -> Consistent(status, p)

\* C14: signal_controller(p) with p already green: each step of its transition
\* keeps the vehicle signals of p GREEN, and the transition ends in the signal
\* status it started from (p GREEN, the other pair RED, pedestrians complementary).
NormalRequestIdempotent ==
  [][\A h \in Handlers :
       (/\ pc[h] \in SwitchPcs
        /\ sw[h].ret = "sc_done"
        /\ <<pc[h], sw[h]>>' # <<pc[h], sw[h]>>
        /\ IdempotentSoFar(signal_status, pc[h], sw[h].i, sw[h].target))
         => /\ pc'[h] \in (SwitchPcs \cup {"sc_done"})
            /\ \A s \in VehicleGroup(sw[h].target) : signal_status'[s] = "GREEN"
            /\ IdempotentSoFar(signal_status', pc'[h], sw'[h].i, sw[h].target)]_vars

\* C14: the only call so far, signal_controller([3,4]) with [3,4] green, has gone
\* through its whole transition and the signals are as before the call
IdempotentCallDone ==
  /\ calls = 1
  /\ pc[1] = "sc_done"
  /\ req[1].pair = "34"
  /\ Consistent(signal_status, "34")

\* ------------------------------------------------------------------ C15
\* a step in which forwarder f leaves get_available_controller
Selects(f) == fw[f].pc = "select" /\ fw'[f].pc = "add"

ZeroInFlight == {a \in Registered : is_available[a] /\ InFlight(a) = 0}
BelowCapacity == {a \in Registered : is_available[a] /\ InFlight(a) < BUFFER_SIZE}

DegradedOnlyAfterProvisioning ==
  [][\A f \in Forwarders : Selects(f) =>
       LET c == fw'[f].controller
       IN /\ (c \in Registered /\ InFlight(c) >= BUFFER_SIZE) =>
               /\ ZeroInFlight = {} /\ BelowCapacity = {}
               /\ fw'[f].provision \in {"failed", "max"}
               /\ controllers' = controllers
          /\ fw'[f].provision = "created" =>
               /\ ZeroInFlight = {} /\ BelowCapacity = {}
               /\ c \notin Registered
               /\ controllers' = Append(controllers, c)
               /\ is_available'[c] /\ active_requests'[c] = <<>>]_vars

\* C16 witness: with every registered instance at its capacity the provisioning of
\* a clone failed and the selection returned a saturated instance
DegradedAfterFailedProvisioning ==
  \E f \in Forwarders :
     /\ fw[f].pc = "add" /\ fw[f].provision = "failed"
     /\ InFlight(fw[f].controller) >= BUFFER_SIZE
     /\ \A a \in Registered : InFlight(a) >= BUFFER_SIZE

\* ------------------------------------------------------------------ C17
\* a step in which the attempt of forwarder f fails and forward_request calls itself
Retries(f) == fw[f].pc = "forward" /\ fw'[f].pc = "select"

\* C17: a failed attempt leaves the instance marked unavailable and without the
\* request's id, and the selection of the retry does not return the instance the
\* request has just failed on, unless a health probe of it has succeeded since.
FailedInstanceExcluded ==
  [][\A f \in Forwarders :
       /\ Retries(f) =>
            /\ ~is_available'[fw[f].controller]
            /\ ~InQueue(active_requests'[fw[f].controller], fw[f].request_id)
       /\ (Selects(f) /\ fw[f].failed_on # 0) =>
            fw'[f].controller # fw[f].failed_on]_vars

\* C17 witness: a retry was routed to another instance than the one that failed
RetriedElsewhere ==
  \E f \in Forwarders :
     /\ fw[f].pc = "add" /\ fw[f].depth > 1
     /\ fw[f].failed_on # 0 /\ fw[f].controller # fw[f].failed_on
     /\ ~is_available[fw[f].failed_on]

\* ------------------------------------------------------------------ C18
AllDown == \A a \in Registered : ~is_available[a]

\* C18: a request that has failed is not tried again once every registered instance
\* is marked unavailable and no clone is provisioned: the instances are exhausted
\* and the call ends.
ExhaustionEndsTheCall ==
  [][\A f \in Forwarders :
       (Selects(f) /\ fw[f].depth > 1 /\ AllDown) => controllers' # controllers]_vars

\* ------------------------------------------------------------------ C19
\* C19: the health-check loop never stops, so that every registered instance is
\* pinged again in a later round.
HealthCheckKeepsRunning == hc.pc # "crashed"

\* ------------------------------------------------------------------ C20
\* C20: an id is in the in-flight set of an instance only while the attempt that
\* carries it is being forwarded to that instance; hence an attempt that has ended
\* has left no id behind, and all sets are empty when nothing is being forwarded.
SlotsReleased ==
  \A c \in Instances : \A k \in 1 .. Len(active_requests[c]) :
     \E f \in Forwarders :
        /\ fw[f].pc = "forward"
        /\ fw[f].controller = c
        /\ fw[f].request_id = active_requests[c][k]

\* C20 witness: one request ended after a failed and a successful attempt, another
\* after a single attempt, nothing is being forwarded and every set is empty
AllSlotsFreeAfterFailure ==
  /\ \E f, g \in Forwarders :
        /\ fw[f].pc = "done" /\ fw[f].depth = 2
        /\ fw[g].pc = "done" /\ fw[g].depth = 1
  /\ \A f \in Forwarders : fw[f].pc # "forward"
  /\ \A c \in Instances : active_requests[c] = <<>>
  /\ \E c \in Instances : total_processed[c] >= 2

\* ------------------------------------------------------------------ C21
ArbiterPcs == {"drain_check", "drain_heads", "serve_pop", "serve_ack", "serve_cur", "cross"}

\* the stage of a call that stands at position at, its transition returning to ret:
\* 1 clock sync, 2 timestamp, 3 enqueue / look at the queues, 4 arbitration (with the
\* transitions and crossings of the VIP requests it serves), 5 pedestrian vote of a
\* normal request, 6 the normal request's own transition, 7 return
Stage(at, ret) ==
  CASE at = "idle" -> 0
    [] at \in BerkeleyPcs -> 1
    [] at = "vip_stamp" -> 2
    [] at \in {"vip_enqueue", "sc_check"} -> 3
    [] at \in ArbiterPcs -> 4
    [] at \in SwitchPcs /\ ret = "cross" -> 4
    [] at = "sc_ack" -> 5
    [] at \in SwitchPcs -> 6
    [] OTHER -> 7

\* the stages a call can come from when it enters stage s
StageBefore(s) ==
  CASE s = 1 -> {0}
    [] s = 2 -> {1}
    [] s = 3 -> {1, 2}
    [] s = 4 -> {3}
    [] s = 5 -> {3, 4}
    [] s = 6 -> {5}
    [] OTHER -> {4, 6}

\* C21: in every call the clock sync comes first and is complete before the request
\* is timestamped, enqueued or arbitrated; the arbitration is complete before a normal
\* request starts its own transition; signal_status changes only in a step of a call
\* that is in a transition, hence after that call's clock sync; a timestamp is taken
\* and a queue grows only in the step of a call that has left its clock sync.
StepsOfACallAreOrdered ==
  [][/\ \A h \in Handlers :
          LET s == Stage(pc[h], sw[h].ret)
              t == Stage(pc'[h], sw'[h].ret)
          IN (t # s /\ t # 0) => s \in StageBefore(t)
     /\ signal_status' # signal_status =>
          \E h \in Handlers : pc[h] \in SwitchPcs /\ <<pc[h], sw[h]>>' # <<pc[h], sw[h]>>
     /\ \A h \in Handlers : req'[h].arrival_time # req[h].arrival_time =>
          \/ pc[h] = "vip_stamp"
          \/ pc[h] = "idle"
          \/ req'[h] = NoReq
     /\ (\E k \in Pairs : Len(vip_queues'[k]) > Len(vip_queues[k])) =>
          \E h \in Handlers : pc[h] = "vip_enqueue" /\ pc'[h] = "drain_check"]_vars

\* C21 witness: a normal request has its own transition behind it after a clock
\* sync in which a peer answered and after a VIP request was arbitrated
NormalCallWentThroughAllStages ==
  \E h \in Handlers :
     /\ pc[h] = "sc_done" /\ req[h].kind = "normal"
     /\ Len(served) > 0
     /\ server_skew # 0

\* ------------------------------------------------------------------ C22
\* C22: every read and every write of signal_status and of the VIP queues is made
\* while state_lock is held.
EveryAccessHoldsStateLock == \A a \in access : a.locked

\* C22 witness: a step has taken a VIP request out of its queue holding state_lock
QueueChangedUnderStateLock ==
  /\ Locked("vip_queues", "write") \in access
  /\ \A a \in access : a.locked
  /\ Len(served) > 0

\* ------------------------------------------------------------------ C23
\* C23: a get_system_status call is never left waiting for a lock that is not given
\* back, and with it the router still completes its requests: a status call that has
\* come to read the signal table can read it, and a request whose backend has
\* answered can be completed.
StatusCallLeavesRouterWorking ==
  /\ status_pc = "stats_signals" => ENABLED get_signal_status
  /\ \A f \in Forwarders : fw[f].pc = "forward" => ENABLED forward_request_ok(f)

\* C23 witness: a get_signal_status call has returned and requests have been
\* completed, all before the first get_system_status call
RouterWorkedBeforeStatusCall ==
  /\ status_pc = "rpc_signals"
  /\ ~db_lock
  /\ \E f \in Forwarders : fw[f].pc = "done"

\* ------------------------------------------------------------------ C24
\* the step of handler h that ends the first loop of its cycle with no peer having
\* answered get_clock_value
LastGetWithoutAnswer(h) ==
  /\ pc[h] = "bk_get"
  /\ bk[h].i = Len(CLIENTS)
  /\ bk[h].answered = <<>>
  /\ bk'[h] # bk[h]
  /\ failures' > failures

\* C24: a cycle in which no peer answers get_clock_value ends with its first loop:
\* the call goes on without a set_time sent and with the skew of the controller and
\* of every peer as it was; a cycle reaches its second loop or its adjustment only
\* with an answer of some peer
CycleWithoutAnswersIsNoOp ==
  [][\A h \in Handlers :
       /\ LastGetWithoutAnswer(h) =>
            /\ pc'[h] = AfterBerkeley(h)
            /\ bk'[h] = NoBk
            /\ server_skew' = server_skew
            /\ local_skew' = local_skew
       /\ pc'[h] \in {"bk_set", "bk_adj"} => bk'[h].answered # <<>>]_vars

\* C24 witness: the only call so far has gone past a cycle in which both peer calls
\* raised, and every skew is the initial one
CallWentOnAfterSilentCycle ==
  /\ calls = 1
  /\ failures = 2
  /\ \E h \in Handlers : pc[h] \in {"vip_stamp", "sc_check"}
  /\ server_skew = 0
  /\ local_skew = [t_signal |-> TSignalInitialSkew, p_signal |-> PSignalInitialSkew]

\* ------------------------------------------------------------------ C25
\* the corrected clocks of the controller and of every peer agree
Synchronised == \A n \in PeerNames : local_skew[n] = server_skew

\* the cycle of handler h in which every peer has answered both calls
EveryPeerAnswered(h) ==
  /\ Len(bk[h].answered) = Len(CLIENTS)
  /\ bk[h].faults = 0

\* C25: the adjustment that ends a cycle in which every peer answered both calls
\* changes the skew by new_epoch - server_time, which is the average, and leaves the
\* corrected time of the controller and of every peer at new_epoch; a cycle started
\* with the clocks in agreement is answered 0 by every peer and changes no skew
FullCycleSynchronises ==
  [][\A h \in Handlers :
       /\ (pc[h] = "bk_adj" /\ pc'[h] # "bk_adj" /\ EveryPeerAnswered(h)) =>
            /\ server_skew' - server_skew = bk[h].new_epoch - bk[h].server_time
            /\ server_skew' - server_skew = bk[h].avg_offset
            /\ now + server_skew' = bk[h].new_epoch
            /\ \A n \in PeerNames : now + local_skew'[n] = bk[h].new_epoch
       /\ (pc[h] \in BerkeleyPcs /\ Synchronised /\ <<pc[h], bk[h]>>' # <<pc[h], bk[h]>>) =>
            /\ server_skew' = server_skew
            /\ local_skew' = local_skew
            /\ Len(bk'[h].answered) > Len(bk[h].answered) =>
                 bk'[h].answered[Len(bk'[h].answered)][2] = 0]_vars

\* C25 witness: after a cycle that p_signal did not answer, a cycle with every
\* answer has set the peers and is about to take a non-zero average into the skew
FullCycleAboutToAdjust ==
  \E h \in Handlers :
    /\ pc[h] = "bk_adj"
    /\ EveryPeerAnswered(h)
    /\ bk[h].avg_offset # 0
    /\ server_skew # 0

\* ------------------------------------------------------------------ C26
\* C26: of the steps a handler takes for a granted VIP after the pop, the vote, the
\* comparison and the crossing leave every entry of signal_status as it is; the
\* comparison goes on to the transition exactly when the current green pair is not
\* the VIP's pair, and straight to the crossing and the release otherwise; a
\* transition on behalf of a VIP starts nowhere else
VipOnGreenRunsNoTransition ==
  [][\A h \in Handlers :
       /\ (pc[h] \in {"serve_ack", "serve_cur", "cross"} /\ pc'[h] # pc[h]) =>
            signal_status' = signal_status
       /\ (pc[h] = "serve_cur" /\ pc'[h] # pc[h]) =>
            IF current_green_pair = dr[h].pair
              THEN pc'[h] = "cross" /\ sw'[h] = sw[h]
              ELSE pc'[h] = "ped_blink" /\ sw'[h].target = dr[h].pair
       /\ (pc[h] = "cross" /\ pc'[h] # pc[h]) => pc'[h] = "drain_check"
       /\ (pc[h] \notin SwitchPcs /\ pc'[h] \in SwitchPcs /\ sw'[h].ret = "cross") =>
            pc[h] = "serve_cur" /\ current_green_pair # dr[h].pair]_vars

\* C26 witness: the only call so far, a VIP for the pair that is green, is crossing
\* with every signal as it was at the start
VipCrossesOnGreen ==
  /\ calls = 1
  /\ \E h \in Handlers :
       /\ pc[h] = "cross"
       /\ dr[h].pair = current_green_pair
       /\ sw[h] = NoSw
  /\ Len(served) = 1
  /\ \A s \in VehicleGroup(current_green_pair) : signal_status[s] = "GREEN"
  /\ \A s \in VehicleGroup(OtherPair(current_green_pair)) : signal_status[s] = "RED"

\* ------------------------------------------------------------------ C27
AllAre(group, colour) == \A s \in group : signal_status[s] = colour

\* what the steps already taken by a transition to p have left behind, by the
\* statement the transition is at
TransitionSoFar(at, p) ==
  CASE at = "ped_red" -> AllAre(PedestrianGroup(p), "BLINKING RED")
    [] at \in {"ped_yellow", "ped_green", "veh_yellow"} -> AllAre(PedestrianGroup(p), "RED")
    [] at = "veh_red" ->
         AllAre(PedestrianGroup(p), "RED") /\ AllAre(VehicleGroup(OtherPair(p)), "YELLOW")
    [] at = "veh_green" ->
         AllAre(PedestrianGroup(p), "RED") /\ AllAre(VehicleGroup(OtherPair(p)), "RED")
    [] OTHER -> TRUE

\* C27: a transition that runs alone comes to its end, and ends with the target
\* pair GREEN and the other pair RED; a vehicle signal of the target pair is turned
\* GREEN only by the last step, which finds the other pair RED after YELLOW and the
\* pedestrian signals of the target pair RED after BLINKING RED
TransitionOrderedAndTerminates ==
  /\ [][\A h \in Handlers :
          /\ pc[h] \in SwitchPcs => TransitionSoFar(pc[h], sw[h].target)
          /\ (pc[h] \in SwitchPcs /\ pc[h] # "veh_green") =>
               \A s \in VehicleGroup(sw[h].target) :
                 signal_status'[s] = "GREEN" => signal_status[s] = "GREEN"
          /\ (pc[h] = "veh_green" /\ pc'[h] # pc[h]) =>
               /\ pc'[h] = sw[h].ret
               /\ \A s \in VehicleGroup(sw[h].target) : signal_status'[s] = "GREEN"
               /\ \A s \in VehicleGroup(OtherPair(sw[h].target)) : signal_status'[s] = "RED"]_vars
  /\ \A h \in Handlers : (pc[h] \in SwitchPcs) ~> (pc[h] \notin SwitchPcs)

\* C27 witness: a transition to [1,2] has run from the initial signals to its last
\* step
TransitionBeforeGreen ==
  \E h \in Handlers :
    /\ pc[h] = "veh_green"
    /\ sw[h].target = "12"
    /\ AllAre(VehicleGroup("12"), "RED")
    /\ AllAre(VehicleGroup("34"), "RED")
    /\ AllAre(PedestrianGroup("12"), "RED")
    /\ AllAre(PedestrianGroup("34"), "GREEN")

SortedAndOwn(k) ==
  LET q == vip_queues[k]
  IN /\ \A i \in 1 .. Len(q) - 1 :
          \/ q[i].priority < q[i + 1].priority
          \/ q[i].priority = q[i + 1].priority /\ q[i].arrival_time <= q[i + 1].arrival_time
     /\ \A i \in 1 .. Len(q) : q[i].target_pair = k

\* C29: after every step each VIP queue is sorted ascending by (priority,
\* arrival_time) and holds only requests of its own pair; the step of a vip_arrival
\* that enqueues adds one request to the queue of its pair and leaves the other
\* queue as it is
QueuesStaySortedAndSeparate ==
  [][/\ \A k \in Pairs : SortedAndOwn(k)'
     /\ \A h \in Handlers :
          (pc[h] = "vip_enqueue" /\ pc'[h] # pc[h]) =>
            /\ vip_queues'[OtherPair(req[h].pair)] = vip_queues[OtherPair(req[h].pair)]
            /\ Len(vip_queues'[req[h].pair]) = Len(vip_queues[req[h].pair]) + 1]_vars

\* C29 witness: the request enqueued last stands before the one enqueued first
LaterArrivalSortedFirst ==
  \E k \in Pairs :
    /\ Len(vip_queues[k]) = 2
    /\ vip_queues[k][1].priority < vip_queues[k][2].priority
    /\ vip_queues[k][1].arrival_time > vip_queues[k][2].arrival_time

\* ------------------------------------------------------------------ C30
\* C30: the registry never holds more than MAX_DYNAMIC_CLONES instances beyond the
\* base ones; it changes only by one new instance added at its end, and only in a
\* state in which no registered instance is available with requests in flight below
\* its capacity; no instance leaves it
ClonesBoundedAndKept ==
  [][/\ Len(controllers') - Len(BASE_CONTROLLERS) <= MAX_DYNAMIC_CLONES
     /\ controllers' # controllers =>
          /\ available_controllers = {}
          /\ Len(controllers') = Len(controllers) + 1
          /\ SubSeq(controllers', 1, Len(controllers)) = controllers
          /\ controllers'[Len(controllers')] \notin Registered]_vars

\* C30 witness: with every dynamic instance the limit allows registered and no
\* instance available, a selection has been refused a further one
CloneRefusedAtLimit ==
  /\ Len(controllers) = Len(BASE_CONTROLLERS) + MAX_DYNAMIC_CLONES
  /\ \E f \in Forwarders : fw[f].pc = "add" /\ fw[f].provision = "max"

PedestrianNeverGreenWithVehicle ==
  \A s \in VehicleSignals :
    ~(signal_status[s] = "GREEN" /\ signal_status[PedestrianOf(s)] = "GREEN")

\* C33 witness: a transition has ended with each pedestrian signal GREEN exactly
\* where the vehicle signal is RED
TransitionEndedComplementary ==
  /\ \A h \in Handlers : pc[h] \notin SwitchPcs
  /\ PairIsGreen("12")
  /\ \A s \in VehicleSignals :
       signal_status[PedestrianOf(s)] = (IF signal_status[s] = "RED" THEN "GREEN" ELSE "RED")

\* ------------------------------------------------------------------ C34
\* C34: the request of a client call is run by at most one instance
RunOnAtMostOneInstance ==
  \A f \in Forwarders : Cardinality(executed_on[f]) <= 1

\* C34 witness: a call has ended on the instance it was retried on after the first
\* instance could not be reached
RetriedAfterUnreachable ==
  \E f \in Forwarders :
    /\ fw[f].pc = "done"
    /\ fw[f].depth = 2
    /\ executed_on[f] = {fw[f].controller}

\* ------------------------------------------------------------------ C35
\* the calls that have been admitted to instance c and have not finished there
Forwarding(c) == {f \in Forwarders : fw[f].pc = "forward" /\ fw[f].controller = c}

AllCyclesFinishedWithoutFailure ==
  /\ calls >= 1
  /\ failures = 0
  /\ \A h \in Handlers : pc[h] \notin BerkeleyPcs

NoHandlerActive == \A h \in Handlers : pc[h] = "idle"

\* C39: whenever no request handler is active, both VIP queues are empty: a
\* vip_arrival, and a signal_controller that saw a pending VIP, leaves the drain
\* loop only when it has observed both queues empty, or with an IndexError
\* behind a handler that is still draining
QueuesEmptyWhenNoHandlerActive ==
  NoHandlerActive => \A k \in Pairs : vip_queues[k] = <<>>

\* two VIP calls are over, one of them ended by the IndexError of the drain
\* loop, both requests have been removed and served
BothDrainedThoughOneFaulted ==
  /\ NoHandlerActive
  /\ calls = 2
  /\ \E h \in Handlers : result[h] = "fault"
  /\ Len(served) = 2
  /\ \A k \in Pairs : vip_queues[k] = <<>>

\* ------------------------------------------------------------------ C40
\* the call of handler h is a vip_arrival whose request has been appended
Enqueued(h) ==
  /\ req[h].kind = "vip"
  /\ pc[h] \notin (BerkeleyPcs \cup {"vip_stamp", "vip_enqueue"})

\* handler h has popped a VIP and has neither let it cross nor dropped it yet
Serving(h) ==
  \/ pc[h] \in {"serve_ack", "serve_cur", "cross"}
  \/ pc[h] \in SwitchPcs /\ sw[h].ret = "cross"

\* the places request id stands in: positions of the queues, and removals
Copies(id) ==
  Cardinality(UNION {{<<k, i>> : i \in {j \in 1 .. Len(vip_queues[k]) :
                                            vip_queues[k][j].vehicle_id = id}} :
                     k \in Pairs})
    + Cardinality({i \in 1 .. Len(served) : served[i].vip.vehicle_id = id})

\* C40: every VIP that has been enqueued is either still queued, once, or has
\* been removed, once; a removed VIP is in the hands of one handler at most, and
\* that handler leaves it only by letting it cross (pedestrian ack granted or
\* unreachable) or by dropping it on DENY: no VIP is served twice and none
\* disappears.
EveryVipRemovedAndServedOnce ==
  /\ [](\A h \in Handlers : Enqueued(h) => Copies(req[h].id) = 1)
  /\ [](\A h \in Handlers : Serving(h) =>
          /\ Copies(dr[h].vip.vehicle_id) = 1
          /\ \A k \in Pairs : dr[h].vip.vehicle_id \notin QueuedIds(vip_queues[k])
          /\ \A g \in Handlers \ {h} :
               Serving(g) => dr[g].vip.vehicle_id # dr[h].vip.vehicle_id)
  /\ [][\A h \in Handlers :
          /\ (~Serving(h) /\ Serving(h)') =>
               /\ pc[h] = "serve_pop"
               /\ Len(served') = Len(served) + 1
               /\ served'[Len(served')].vip = dr'[h].vip
          /\ (Serving(h) /\ Serving(h)') => dr'[h].vip = dr[h].vip
          /\ (Serving(h) /\ ~Serving(h)') =>
               /\ pc'[h] = "drain_check"
               /\ \/ pc[h] = "cross" /\ dr[h].vote # "DENY"
                  \/ pc[h] = "serve_ack" /\ dr'[h].vote = "DENY"
          /\ (pc[h] # "cross" /\ pc'[h] = "cross") => dr[h].vote # "DENY"]_vars

\* two VIP calls, no fault: both requests have been removed, the first one was
\* dropped on DENY, and a handler has just let the second one cross
OneCrossedOneDropped ==
  /\ calls = 2
  /\ Len(served) = 2
  /\ \A k \in Pairs : vip_queues[k] = <<>>
  /\ \A h \in Handlers : result[h] # "fault" /\ ~Serving(h)
  /\ \E g \in Handlers : req[g].denied /\ req[g].id = served[1].vip.vehicle_id
  /\ \A g \in Handlers : req[g].denied => req[g].id # served[2].vip.vehicle_id
  /\ \E h \in Handlers :
       /\ pc[h] = "drain_check"
       /\ dr[h].vip = served[2].vip
       /\ dr[h].vote = "none"
====
